---- MODULE Spec2Model ----
(***************************************************************************)
(* Database migration engine of flareon (flareon/src/db/migrations.rs):    *)
(* the dependency sorter behind MigrationEngine::sort_migrations and the   *)
(* executor MigrationEngine::run with its applied-migration ledger.        *)
(*                                                                         *)
(* App names and migration names are strings in the source; they are       *)
(* modelled as small naturals whose numeric order stands for the           *)
(* lexicographic order of the strings (m_0001 < m_0002).                   *)
(***************************************************************************)
EXTENDS Integers, Sequences, FiniteSets, TLC

\* ------------------------------------------------------------------ bounds
NumApps == 2
NumNames == 2
MaxMigrations == 3
MaxDeps == 1
MaxEngineMigrations == 2
MaxOps == 2
MaxRuns == 3
NumModels == 1
NumFields == 1
MaxGraphMigrations == 4
MaxGraphDeps == 2
MaxEdges == 4
MaxModelMigrations == 3
MaxRequests == 2
NumGenTables == 2
NumColumns == 3
NumTypes == 2
MaxGenModels == 2
MaxHistory == 2
MaxModelFields == 3
MaxBuilderCalls == 4

Apps == 1..NumApps
Names == 1..NumNames
\* identity of a migration: <<app_name, name>>
Ids == Apps \X Names

\* ------------------------------------------------------------ data model

\* MigrationDependency::migration(app, migration)
MigrationDependency_migration(app, migration) ==
    [kind |-> "Migration", app |-> app, migration |-> migration]

\* MigrationDependency::model(app, model_name)
MigrationDependency_model(app, model_name) ==
    [kind |-> "Model", app |-> app, model_name |-> model_name]

\* Operation::create_model()...build() and Operation::add_field()...build()
Operation_create_model(table_name, if_not_exists) ==
    [kind |-> "CreateModel", table_name |-> table_name, field |-> 0,
     if_not_exists |-> if_not_exists]

Operation_add_field(table_name, field) ==
    [kind |-> "AddField", table_name |-> table_name, field |-> field,
     if_not_exists |-> FALSE]

\* a migration as seen through DynMigration
DynMigration(app, name, deps, ops) ==
    [app_name |-> app, name |-> name, dependencies |-> deps, operations |-> ops]

MigId(m) == <<m.app_name, m.name>>

\* (a.app_name(), a.name()) < (b.app_name(), b.name()), tuple order
IdLess(a, b) == a[1] < b[1] \/ (a[1] = b[1] /\ a[2] < b[2])

\* index of the migration with identity id
Pos(migs, id) == CHOOSE i \in 1..Len(migs) : MigId(migs[i]) = id

SeqRange(s) == {s[i] : i \in 1..Len(s)}

Reverse(s) == [i \in 1..Len(s) |-> s[Len(s) + 1 - i]]

\* ---------------------------------------------------------------- sorter

\* stable insertion of m into a sequence kept in descending identity order
RECURSIVE InsertDesc(_, _)
InsertDesc(m, s) ==
    IF s = <<>> THEN <<m>>
    ELSE IF IdLess(MigId(s[Len(s)]), MigId(m))
         THEN Append(InsertDesc(m, SubSeq(s, 1, Len(s) - 1)), s[Len(s)])
         ELSE Append(s, m)

\* the by-name pre-sort of MigrationSorter::sort (descending, so that the
\* reversed depth-first finishing order prefers the smaller identity)
RECURSIVE SortByName(_)
SortByName(migs) ==
    IF migs = <<>> THEN <<>>
    ELSE InsertDesc(migs[Len(migs)], SortByName(SubSeq(migs, 1, Len(migs) - 1)))

\* migration m of app `app` holds the create-table operation of the model
CreatesModel(m, app, model_name) ==
    /\ m.app_name = app
    /\ \E k \in 1..Len(m.operations) :
          /\ m.operations[k].kind = "CreateModel"
          /\ m.operations[k].table_name = <<app, model_name>>

\* index of the migration a dependency names (for a dependency on a model:
\* the first migration, in the order of the slice, that creates the model),
\* 0 when there is none
Lookup(migs, dep) ==
    LET hits == {i \in 1..Len(migs) :
                    IF dep.kind = "Migration"
                    THEN /\ migs[i].app_name = dep.app
                         /\ migs[i].name = dep.migration
                    ELSE CreatesModel(migs[i], dep.app, dep.model_name)}
    IN IF hits = {} THEN 0 ELSE CHOOSE i \in hits : \A j \in hits : i <= j

\* every dependency of every migration resolves inside the slice
AllResolved(migs) ==
    \A i \in 1..Len(migs) : \A d \in migs[i].dependencies : Lookup(migs, d) # 0

\* ascending sequence of the elements of a set of indices
RECURSIVE SetToSeq(_)
SetToSeq(S) ==
    IF S = {} THEN <<>>
    ELSE LET x == CHOOSE y \in S : \A z \in S : y <= z
         IN <<x>> \o SetToSeq(S \ {x})

\* graph edges dependency -> dependent, in the order the dependents are
\* enumerated
Graph(migs) ==
    [i \in 1..Len(migs) |->
        SetToSeq({j \in 1..Len(migs) :
                    \E d \in migs[j].dependencies : Lookup(migs, d) = i})]

\* MigrationSorter::new + by-name sort + graph construction
SorterNew(migs) ==
    LET sorted == SortByName(migs)
        n == Len(sorted)
        base == [pc |-> "visit", err |-> "none", migs |-> sorted,
                 adj |-> [i \in 1..n |-> <<>>],
                 visited |-> [i \in 1..n |-> "NotVisited"],
                 stack |-> <<>>, out |-> <<>>, root |-> 1, result |-> <<>>,
                 steps |-> 0]
    IN IF AllResolved(sorted)
       THEN [base EXCEPT !.adj = Graph(sorted)]
       ELSE [base EXCEPT !.pc = "err", !.err = "UnresolvedDependency"]

\* one step of the depth-first topological sort
SorterVisit(s) ==
    IF s.pc # "visit" THEN s
    ELSE IF s.stack = <<>>
    THEN IF s.root > Len(s.migs)
         THEN LET order == Reverse(s.out)
              IN [s EXCEPT !.pc = "done",
                           !.result = [i \in 1..Len(order) |-> s.migs[order[i]]]]
         ELSE IF s.visited[s.root] = "NotVisited"
              THEN [s EXCEPT !.visited[s.root] = "Visiting",
                             !.stack = <<[v |-> s.root, k |-> 1]>>,
                             !.root = @ + 1]
              ELSE [s EXCEPT !.root = @ + 1]
    ELSE LET top == s.stack[Len(s.stack)]
             rest == SubSeq(s.stack, 1, Len(s.stack) - 1)
         IN IF top.k > Len(s.adj[top.v])
            THEN [s EXCEPT !.visited[top.v] = "Visited",
                           !.out = Append(@, top.v),
                           !.stack = rest]
            ELSE LET w == s.adj[top.v][top.k]
                     stepped == Append(rest, [v |-> top.v, k |-> top.k + 1])
                 IN CASE s.visited[w] = "Visiting" ->
                            [s EXCEPT !.pc = "err", !.err = "CyclicDependency"]
                      [] s.visited[w] = "Visited" ->
                            [s EXCEPT !.stack = stepped]
                      [] OTHER ->
                            [s EXCEPT !.visited[w] = "Visiting",
                                      !.stack = Append(stepped, [v |-> w, k |-> 1])]

\* a step of the sorter, counted
SorterStep(s) == [SorterVisit(s) EXCEPT !.steps = s.steps + 1]

SorterFinished(s) == s.pc \in {"done", "err"}

\* MigrationSorter::sort run to completion
RECURSIVE SorterRun(_)
SorterRun(s) == IF SorterFinished(s) THEN s ELSE SorterRun(SorterStep(s))

\* sort_migrations with a permutation step that overwrites instead of
\* swapping: the first migration of the order fills every slot
sort_migrations_ret_overwrite(migs, s) ==
    IF s.pc = "err"
    THEN [status |-> "returned", ok |-> FALSE, err |-> s.err, migrations |-> s.migs]
    ELSE [status |-> "returned", ok |-> TRUE, err |-> "none",
          migrations |-> [i \in 1..Len(s.result) |-> s.result[1]]]

\* sort_migrations with the sorter working on a copy of the slice: the
\* caller's slice keeps its order
sort_migrations_ret_copy(migs, s) ==
    IF s.pc = "err"
    THEN [status |-> "returned", ok |-> FALSE, err |-> s.err, migrations |-> migs]
    ELSE [status |-> "returned", ok |-> TRUE, err |-> "none", migrations |-> migs]

\* sort_migrations dropping the sorter's error instead of propagating it
sort_migrations_ret_swallow(migs, s) ==
    [status |-> "returned", ok |-> TRUE, err |-> "none",
     migrations |-> IF s.pc = "err" THEN s.migs ELSE s.result]

\* what sort_migrations hands back once the sorter has finished: the error
\* mapped into MigrationEngineError, or Ok with the slice reordered in place
sort_migrations_ret(migs, s) ==
    IF s.pc = "err"
    THEN [status |-> "returned", ok |-> FALSE, err |-> s.err, migrations |-> s.migs]
    ELSE [status |-> "returned", ok |-> TRUE, err |-> "none", migrations |-> s.result]

\* MigrationEngine::sort_migrations
sort_migrations(migs) == sort_migrations_ret(migs, SorterRun(SorterNew(migs)))

\* -------------------------------------------------------------- database

\* table identifiers: <<app, model>> stands for "app__model"
Tables == Apps \X (1..NumModels)
Fields == 1..NumFields

\* table_name of the AppliedMigration model, "flareon__migrations"
LedgerTable == <<0, 0>>

AllTables == Tables \cup {LedgerTable}

\* the bootstrap operation built without .if_not_exists()
CREATE_APPLIED_MIGRATIONS_MIGRATION_plain == Operation_create_model(LedgerTable, FALSE)

\* the bootstrap operation that creates the ledger table
CREATE_APPLIED_MIGRATIONS_MIGRATION == Operation_create_model(LedgerTable, TRUE)

\* Operation::forwards against database d. dbOk = FALSE is a failure of the
\* database itself (connection lost, ...); otherwise the statement fails
\* exactly when SQL makes it fail: CREATE TABLE of an existing table without
\* IF NOT EXISTS, ADD COLUMN to a missing table or of an existing column.
\* A created table starts with its declared fields, abstracted as field 0.
Operation_forwards(d, op, dbOk) ==
    LET t == d.tables[op.table_name]
    IN IF ~dbOk THEN [ok |-> FALSE, db |-> d]
       ELSE IF op.kind = "CreateModel"
       THEN IF t.exists
            THEN [ok |-> op.if_not_exists, db |-> d]
            ELSE [ok |-> TRUE,
                  db |-> [d EXCEPT !.tables[op.table_name] =
                                      [exists |-> TRUE, fields |-> {0}]]]
       ELSE IF t.exists /\ op.field \notin t.fields
            THEN [ok |-> TRUE,
                  db |-> [d EXCEPT !.tables[op.table_name].fields = @ \cup {op.field}]]
            ELSE [ok |-> FALSE, db |-> d]

\* Operation::backwards against database d: DROP TABLE for a CreateModel,
\* DROP COLUMN for an AddField; it fails when there is nothing to drop
Operation_backwards(d, op, dbOk) ==
    LET t == d.tables[op.table_name]
    IN IF ~dbOk THEN [ok |-> FALSE, db |-> d]
       ELSE IF op.kind = "CreateModel"
       THEN IF t.exists
            THEN [ok |-> TRUE,
                  db |-> [d EXCEPT !.tables[op.table_name] =
                                      [exists |-> FALSE, fields |-> {}]]]
            ELSE [ok |-> FALSE, db |-> d]
       ELSE IF t.exists /\ op.field \in t.fields
            THEN [ok |-> TRUE,
                  db |-> [d EXCEPT !.tables[op.table_name].fields = @ \ {op.field}]]
            ELSE [ok |-> FALSE, db |-> d]

\* MigrationEngine::is_migration_applied comparing the app column with the
\* migration's name
is_migration_applied_wrong_column(d, m, dbOk) ==
    IF ~dbOk \/ ~d.tables[LedgerTable].exists
    THEN [ok |-> FALSE, applied |-> FALSE]
    ELSE [ok |-> TRUE,
          applied |-> \E i \in 1..Len(d.ledger) :
                          /\ d.ledger[i].app = m.name
                          /\ d.ledger[i].name = m.name]

\* MigrationEngine::is_migration_applied: is there a ledger row with this
\* migration's app and name
is_migration_applied(d, m, dbOk) ==
    IF ~dbOk \/ ~d.tables[LedgerTable].exists
    THEN [ok |-> FALSE, applied |-> FALSE]
    ELSE [ok |-> TRUE,
          applied |-> \E i \in 1..Len(d.ledger) :
                          /\ d.ledger[i].app = m.app_name
                          /\ d.ledger[i].name = m.name]

\* MigrationEngine::mark_migration_applied keeping one row only: the new row
\* takes the place of the rows that were there
mark_migration_applied_replace(d, m, dbOk) ==
    IF ~dbOk \/ ~d.tables[LedgerTable].exists
    THEN [ok |-> FALSE, db |-> d]
    ELSE [ok |-> TRUE,
          db |-> [d EXCEPT !.ledger =
                     <<[id |-> 1, app |-> m.app_name, name |-> m.name]>>]]

\* MigrationEngine::mark_migration_applied reporting success without a row
mark_migration_applied_no_row(d, m, dbOk) ==
    IF ~dbOk \/ ~d.tables[LedgerTable].exists
    THEN [ok |-> FALSE, db |-> d]
    ELSE [ok |-> TRUE, db |-> d]

\* MigrationEngine::mark_migration_applied: insert one ledger row (the id is
\* assigned by the database, the applied timestamp is left out)
mark_migration_applied(d, m, dbOk) ==
    IF ~dbOk \/ ~d.tables[LedgerTable].exists
    THEN [ok |-> FALSE, db |-> d]
    ELSE [ok |-> TRUE,
          db |-> [d EXCEPT !.ledger =
                     Append(@, [id |-> Len(d.ledger) + 1,
                                app |-> m.app_name, name |-> m.name])]]

\* ----------------------------------------------------------------- state

VARIABLES
    migrations,   \* the migrations handed to sort_migrations / MigrationEngine::new
    sorter,       \* state of the MigrationSorter working on them
    sortRet,      \* what sort_migrations returned, "pending" before it returns
    engine,       \* the constructed MigrationEngine
    db,           \* the database: schema tables, the ledger table and its rows
    run,          \* position and outcome of the current MigrationEngine::run call
    hist,         \* bookkeeping about earlier calls on the same database
    startup,      \* the application around the engine: position of its startup
    other,        \* a second MigrationEngine::run call on the same database
    probe,        \* one operation applied forwards and then backwards
    gen           \* the migration generator: its inputs, position and output

vars == <<migrations, sorter, sortRet, engine, db, run, hist, startup, other, probe,
          gen>>

SorterIdle ==
    [pc |-> "new", err |-> "none", migs |-> <<>>, adj |-> <<>>, visited |-> <<>>,
     stack |-> <<>>, out |-> <<>>, root |-> 1, result |-> <<>>, steps |-> 0]

Pending == [status |-> "pending", ok |-> FALSE, err |-> "none", migrations |-> <<>>]

NoEngine == [status |-> "none", migrations |-> <<>>]

FreshDb ==
    [tables |-> [t \in AllTables |-> [exists |-> FALSE, fields |-> {}]],
     ledger |-> <<>>]

IdleRun == [pc |-> "idle", mi |-> 1, oi |-> 1, result |-> "none", log |-> <<>>]

FreshHist ==
    [runs |-> 0, prevResult |-> "none", prevLog |-> <<>>, ledgerAtStart |-> <<>>,
     fwdDone |-> {}]

\* no application around the engine: the engine is used on its own
StartupOff ==
    [pc |-> "off", has_db |-> FALSE, next_app |-> 1, inited |-> {}, served |-> 0,
     err |-> "none"]

\* no operation is being probed
ProbeOff == [pc |-> "off"]

\* the generator is not in use
GenOff == [pc |-> "off"]

\* ------------------------------------------------------- MigrationEngine

\* ----------------------------------------------------------------- inputs

DepUniverse == {MigrationDependency_migration(a, n) : a \in Apps, n \in Names}

DepSets == {D \in SUBSET DepUniverse : Cardinality(D) <= MaxDeps}

DistinctIds(s) == \A i, j \in 1..Len(s) : i # j => MigId(s[i]) # MigId(s[j])

\* the operations of a generated migration of app a on its model mo: create
\* the table, then add fields to it
OpList(a, mo, n) ==
    [k \in 1..n |->
        IF k = 1 THEN Operation_create_model(<<a, mo>>, FALSE)
        ELSE Operation_add_field(<<a, mo>>, ((k - 2) % NumFields) + 1)]

OpLists(a) == {OpList(a, mo, n) : mo \in 1..NumModels, n \in 0..MaxOps}

EngineMigrations ==
    UNION {{DynMigration(id[1], id[2], D, ops) : D \in DepSets, ops \in OpLists(id[1])} :
              id \in Ids}

\* the engine sorts what it is given, so one order per set is enough here:
\* the descending one, which the sorter has to turn around
EngineInputs ==
    {s \in UNION {[1..n -> EngineMigrations] : n \in 1..MaxEngineMigrations} :
        \A i, j \in 1..Len(s) : i < j => IdLess(MigId(s[j]), MigId(s[i]))}

Init ==
    /\ migrations \in EngineInputs
    /\ sorter = SorterIdle
    /\ sortRet = Pending
    /\ engine = NoEngine
    /\ db = FreshDb
    /\ run = IdleRun
    /\ hist = FreshHist
    /\ startup = StartupOff
    /\ other = IdleRun
    /\ probe = ProbeOff
    /\ gen = GenOff

\* MigrationEngine::from_wrapper building the engine whatever
\* sort_migrations returns
EngineNew_unchecked ==
    /\ engine.status = "none"
    /\ LET r == sort_migrations(migrations)
       IN /\ sorter' = SorterRun(SorterNew(migrations))
          /\ sortRet' = r
          /\ engine' = [status |-> "ok", migrations |-> r.migrations]
    /\ UNCHANGED <<migrations, db, run, hist, startup, other, probe, gen>>

\* MigrationEngine::new / from_wrapper: sort, then build the engine
EngineNew ==
    /\ engine.status = "none"
    /\ LET r == sort_migrations(migrations)
       IN /\ sorter' = SorterRun(SorterNew(migrations))
          /\ sortRet' = r
          /\ engine' = IF r.ok
                        THEN [status |-> "ok", migrations |-> r.migrations]
                        ELSE [status |-> "err", migrations |-> <<>>]
    /\ UNCHANGED <<migrations, db, run, hist, startup, other, probe, gen>>

Event(ev, id, oi, ok) == [ev |-> ev, id |-> id, oi |-> oi, ok |-> ok]

\* first migration at index >= mi that has an operation, Len + 1 if none:
\* the loops of run pass over a migration without operations
FirstWithOps(migs, mi) ==
    LET c == {m \in mi..Len(migs) : Len(migs[m].operations) > 0}
    IN IF c = {} THEN Len(migs) + 1 ELSE CHOOSE m \in c : \A k \in c : m <= k

\* the loop position after operation oi of migration mi
Advance(migs, mi, oi) ==
    IF oi < Len(migs[mi].operations)
    THEN <<mi, oi + 1>>
    ELSE <<FirstWithOps(migs, mi + 1), 1>>

\* run continuing at loop position pos, or returning Ok(()) after the loops
Continue(r, pos, event) ==
    IF pos[1] > Len(engine.migrations)
    THEN [r EXCEPT !.pc = "returned", !.result = "ok", !.log = Append(@, event)]
    ELSE [r EXCEPT !.pc = "check", !.mi = pos[1], !.oi = pos[2],
                   !.log = Append(@, event)]

\* run returning the error of a failed call
Fail(r, event) ==
    [r EXCEPT !.pc = "returned", !.result = "err", !.log = Append(@, event)]

CurMigration == engine.migrations[run.mi]
CurOperation == CurMigration.operations[run.oi]

\* a call of MigrationEngine::run on the database
RunStart ==
    /\ engine.status = "ok"
    /\ run.pc \in {"idle", "returned"}
    /\ hist.runs < MaxRuns
    /\ run' = [IdleRun EXCEPT !.pc = "bootstrap"]
    /\ hist' = [hist EXCEPT !.runs = @ + 1, !.prevResult = run.result,
                            !.prevLog = run.log, !.ledgerAtStart = db.ledger]
    /\ UNCHANGED <<migrations, sorter, sortRet, engine, db, startup, other, probe, gen>>

\* CREATE_APPLIED_MIGRATIONS_MIGRATION.forwards(database).await?
RunBootstrap ==
    /\ run.pc = "bootstrap"
    /\ \E dbOk \in BOOLEAN :
          LET r == Operation_forwards(db, CREATE_APPLIED_MIGRATIONS_MIGRATION, dbOk)
              e == Event("bootstrap", LedgerTable, 0, r.ok)
          IN /\ db' = r.db
             /\ run' = IF r.ok
                        THEN Continue(run, <<FirstWithOps(engine.migrations, 1), 1>>, e)
                        ELSE Fail(run, e)
    /\ UNCHANGED <<migrations, sorter, sortRet, engine, hist, startup, other, probe, gen>>

\* if Self::is_migration_applied(database, migration).await? { continue; }
RunCheck ==
    /\ run.pc = "check"
    /\ \E dbOk \in BOOLEAN :
          LET r == is_migration_applied(db, CurMigration, dbOk)
              e == Event("check", MigId(CurMigration), run.oi, r.ok)
              skip == Event("skip", MigId(CurMigration), run.oi, TRUE)
          IN run' = IF ~r.ok THEN Fail(run, e)
                    ELSE IF r.applied
                    THEN Continue(run, Advance(engine.migrations, run.mi, run.oi), skip)
                    ELSE [run EXCEPT !.pc = "forwards", !.log = Append(@, e)]
    /\ UNCHANGED <<migrations, sorter, sortRet, engine, db, hist, startup, other, probe, gen>>

\* operation.forwards(database).await with the error ignored
RunForwards_ignore_error ==
    /\ run.pc = "forwards"
    /\ \E dbOk \in BOOLEAN :
          LET r == Operation_forwards(db, CurOperation, dbOk)
              e == Event("forwards", MigId(CurMigration), run.oi, r.ok)
          IN /\ db' = r.db
             /\ run' = [run EXCEPT !.pc = "mark", !.log = Append(@, e)]
             /\ hist' = IF r.ok
                         THEN [hist EXCEPT !.fwdDone = @ \cup {<<MigId(CurMigration), run.oi>>}]
                         ELSE hist
    /\ UNCHANGED <<migrations, sorter, sortRet, engine, startup, other, probe, gen>>

\* operation.forwards(database).await?
RunForwards ==
    /\ run.pc = "forwards"
    /\ \E dbOk \in BOOLEAN :
          LET r == Operation_forwards(db, CurOperation, dbOk)
              e == Event("forwards", MigId(CurMigration), run.oi, r.ok)
          IN /\ db' = r.db
             /\ run' = IF r.ok
                        THEN [run EXCEPT !.pc = "mark", !.log = Append(@, e)]
                        ELSE Fail(run, e)
             /\ hist' = IF r.ok
                         THEN [hist EXCEPT !.fwdDone = @ \cup {<<MigId(CurMigration), run.oi>>}]
                         ELSE hist
    /\ UNCHANGED <<migrations, sorter, sortRet, engine, startup, other, probe, gen>>

\* run undoing the operation when the ledger row cannot be written
RunMark_rollback ==
    /\ run.pc = "mark"
    /\ \E dbOk \in BOOLEAN :
          LET r == mark_migration_applied(db, CurMigration, dbOk)
              e == Event("mark", MigId(CurMigration), run.oi, r.ok)
          IN /\ db' = IF r.ok THEN r.db
                      ELSE Operation_backwards(db, CurOperation, TRUE).db
             /\ run' = IF r.ok
                        THEN Continue(run, Advance(engine.migrations, run.mi, run.oi), e)
                        ELSE Fail(run, e)
    /\ UNCHANGED <<migrations, sorter, sortRet, engine, hist, startup, other, probe, gen>>

\* Self::mark_migration_applied(database, migration).await with the error
\* ignored
RunMark_ignore_error ==
    /\ run.pc = "mark"
    /\ \E dbOk \in BOOLEAN :
          LET r == mark_migration_applied(db, CurMigration, dbOk)
              e == Event("mark", MigId(CurMigration), run.oi, r.ok)
          IN /\ db' = r.db
             /\ run' = Continue(run, Advance(engine.migrations, run.mi, run.oi), e)
    /\ UNCHANGED <<migrations, sorter, sortRet, engine, hist, startup, other, probe, gen>>

\* Self::mark_migration_applied(database, migration).await?, at the end of
\* the body of the loop over the operations
RunMark ==
    /\ run.pc = "mark"
    /\ \E dbOk \in BOOLEAN :
          LET r == mark_migration_applied(db, CurMigration, dbOk)
              e == Event("mark", MigId(CurMigration), run.oi, r.ok)
          IN /\ db' = r.db
             /\ run' = IF r.ok
                        THEN Continue(run, Advance(engine.migrations, run.mi, run.oi), e)
                        ELSE Fail(run, e)
    /\ UNCHANGED <<migrations, sorter, sortRet, engine, hist, startup, other, probe, gen>>

\* the process dies in the middle of run
RunCrash ==
    /\ run.pc \in {"bootstrap", "check", "forwards", "mark"}
    /\ run' = [run EXCEPT !.pc = "returned", !.result = "crashed"]
    /\ UNCHANGED <<migrations, sorter, sortRet, engine, db, hist, startup, other, probe, gen>>

Next ==
    \/ EngineNew
    \/ RunStart
    \/ RunBootstrap
    \/ RunCheck
    \/ RunForwards
    \/ RunMark
    \/ RunCrash

Spec == Init /\ [][Next]_vars

TypeOK ==
    /\ run.pc \in {"idle", "bootstrap", "check", "forwards", "mark", "returned"}
    /\ run.result \in {"none", "ok", "err", "crashed"}
    /\ hist.runs \in 0..MaxRuns

\* ------------------------------------------------- properties of run

\* indices of the rows of a ledger that record migration id
RowsOf(ledger, id) ==
    {i \in 1..Len(ledger) : ledger[i].app = id[1] /\ ledger[i].name = id[2]}

HasRow(id) == RowsOf(db.ledger, id) # {}

EngineIds == {MigId(engine.migrations[i]) : i \in 1..Len(engine.migrations)}

MigById(id) == engine.migrations[Pos(engine.migrations, id)]

\* operations of migration id whose forwards succeeded according to a log
ForwardedIn(log, id) ==
    {log[i].oi : i \in {k \in 1..Len(log) :
                          log[k].ev = "forwards" /\ log[k].ok /\ log[k].id = id}}

\* some, but not all, operations of migration id were executed
Partial(log, id) ==
    /\ ForwardedIn(log, id) # {}
    /\ ForwardedIn(log, id) # 1..Len(MigById(id).operations)

\* the schema change of an operation is in place
EffectPresent(op) ==
    /\ db.tables[op.table_name].exists
    /\ op.kind = "AddField" => op.field \in db.tables[op.table_name].fields

IsPrefix(a, b) == Len(a) <= Len(b) /\ SubSeq(b, 1, Len(a)) = a

\* C2: the ledger holds a row for a migration only if every operation of
\* the migration has been executed forwards successfully on the database
\* (the row is inserted after the last operation, not earlier).
C2_RowOnlyAfterAllOperations ==
    \A id \in EngineIds :
        HasRow(id) =>
            \A k \in 1..Len(MigById(id).operations) : <<id, k>> \in hist.fwdDone

\* C3: in a run that follows a run that returned Ok, no operation of any
\* migration is executed and the ledger stays as that first run left it;
\* when this run returns Ok it has skipped every operation.
C3_SecondRunIdempotent ==
    (hist.prevResult = "ok") =>
        /\ \A i \in 1..Len(run.log) : run.log[i].ev \notin {"forwards", "mark"}
        /\ db.ledger = hist.ledgerAtStart
        /\ run.result = "ok" =>
              \A i \in 2..Len(run.log) : run.log[i].ev = "skip"

\* a second run returned Ok after skipping a recorded migration
C3_Witness ==
    /\ hist.prevResult = "ok"
    /\ run.result = "ok"
    /\ db.ledger # <<>>
    /\ \E i \in 1..Len(run.log) : run.log[i].ev = "skip"

\* C4: once run has returned Ok the ledger holds exactly one row for every
\* migration of the engine, whatever the number of its operations; and a run
\* none of whose database calls failed returns Ok.
C4_OneRowPerMigration ==
    /\ run.result = "ok" =>
          \A id \in EngineIds : Cardinality(RowsOf(db.ledger, id)) = 1
    /\ (run.pc = "returned" /\ run.result # "crashed"
            /\ \A i \in 1..Len(run.log) : run.log[i].ok) => run.result = "ok"

\* C5: a failed forwards is the last thing run does: it returns the error,
\* the failed migration has no ledger row, the operations applied before
\* are still in place and the rows written before are still there.
C5_FailedOperationAborts ==
    \A i \in 1..Len(run.log) :
        (run.log[i].ev = "forwards" /\ ~run.log[i].ok) =>
            /\ i = Len(run.log)
            /\ run.pc = "returned" /\ run.result = "err"
            /\ ~HasRow(run.log[i].id)
            /\ \A j \in 1..(i - 1) :
                  /\ (run.log[j].ev = "forwards" /\ run.log[j].ok) =>
                        EffectPresent(MigById(run.log[j].id).operations[run.log[j].oi])
                  /\ (run.log[j].ev = "mark" /\ run.log[j].ok) => HasRow(run.log[j].id)
            /\ IsPrefix(hist.ledgerAtStart, db.ledger)

\* run stopped on a failed operation after it had applied and recorded an
\* earlier migration
C5_Witness ==
    /\ run.log # <<>>
    /\ run.log[Len(run.log)].ev = "forwards"
    /\ ~run.log[Len(run.log)].ok
    /\ \E j \in 1..Len(run.log) :
          /\ run.log[j].ev = "mark" /\ run.log[j].ok
          /\ run.log[j].id # run.log[Len(run.log)].id

\* C6: when a run stopped (crash or failure) after some but not all
\* operations of a migration, the ledger has no row for that migration, and
\* the next run executes the migration again from its first operation.
C6_PartialMigrationRetried ==
    \A id \in EngineIds :
        /\ (run.pc = "returned" /\ run.result \in {"err", "crashed"}
                /\ Partial(run.log, id)) => ~HasRow(id)
        /\ (hist.prevResult \in {"err", "crashed"} /\ Partial(hist.prevLog, id)
                /\ run.result = "ok") =>
              \E i \in 1..Len(run.log) :
                  /\ run.log[i].ev = "forwards"
                  /\ run.log[i].id = id
                  /\ run.log[i].oi = 1

\* the event a log must show next after the event about operation oi of the
\* migration at index mi was a skip: none when the loops are over
AfterSkip(i) ==
    LET mi == Pos(engine.migrations, run.log[i].id)
        pos == Advance(engine.migrations, mi, run.log[i].oi)
    IN IF pos[1] > Len(engine.migrations)
       THEN i = Len(run.log) /\ run.pc = "returned" /\ run.result = "ok"
       ELSE IF i = Len(run.log)
       THEN /\ run.mi = pos[1] /\ run.oi = pos[2]
            /\ run.pc = "check" \/ (run.pc = "returned" /\ run.result = "crashed")
       ELSE /\ run.log[i + 1].ev \in {"check", "skip"}
            /\ run.log[i + 1].id = MigId(engine.migrations[pos[1]])
            /\ run.log[i + 1].oi = pos[2]

\* C7: for a migration that has a ledger row when run reaches it, run
\* executes none of its operations and inserts no further row for it, and
\* goes on with what follows it (unless the ledger lookup itself fails).
C7_AppliedMigrationSkipped ==
    \A id \in EngineIds :
        (hist.runs > 0 /\ RowsOf(hist.ledgerAtStart, id) # {}) =>
            /\ \A i \in 1..Len(run.log) :
                  run.log[i].id = id =>
                      \/ run.log[i].ev = "skip" /\ AfterSkip(i)
                      \/ run.log[i].ev = "check" /\ ~run.log[i].ok
            /\ Cardinality(RowsOf(db.ledger, id))
                  = Cardinality(RowsOf(hist.ledgerAtStart, id))

\* a run skipped a migration recorded by an earlier run and then applied
\* the migration after it
C7_Witness ==
    \E i, j \in 1..Len(run.log) :
        /\ i < j
        /\ run.log[i].ev = "skip"
        /\ RowsOf(hist.ledgerAtStart, run.log[i].id) # {}
        /\ run.log[j].ev = "forwards" /\ run.log[j].ok
        /\ run.log[j].id # run.log[i].id

\* -------------------------------------------------- sorting, step by step

\* migrations without operations, for the sorter
SortMigrations == {DynMigration(id[1], id[2], D, <<>>) : id \in Ids, D \in DepSets}

SortInputs ==
    {s \in UNION {[1..n -> SortMigrations] : n \in 0..MaxMigrations} : DistinctIds(s)}

InitSort ==
    /\ migrations \in SortInputs
    /\ sorter = SorterIdle
    /\ sortRet = Pending
    /\ engine = NoEngine
    /\ db = FreshDb
    /\ run = IdleRun
    /\ hist = FreshHist
    /\ startup = StartupOff
    /\ other = IdleRun
    /\ probe = ProbeOff
    /\ gen = GenOff

\* sort_migrations creates the sorter over the slice
SortNew ==
    /\ sorter.pc = "new"
    /\ sortRet = Pending
    /\ sorter' = SorterNew(migrations)
    /\ UNCHANGED <<migrations, sortRet, engine, db, run, hist, startup, other, probe, gen>>

SortStep ==
    /\ sorter.pc = "visit"
    /\ sorter' = SorterStep(sorter)
    /\ UNCHANGED <<migrations, sortRet, engine, db, run, hist, startup, other, probe, gen>>

SortReturn ==
    /\ SorterFinished(sorter)
    /\ sortRet = Pending
    /\ sortRet' = sort_migrations_ret(migrations, sorter)
    /\ UNCHANGED <<migrations, sorter, engine, db, run, hist, startup, other, probe, gen>>

NextSort == SortNew \/ SortStep \/ SortReturn

SpecSort == InitSort /\ [][NextSort]_vars

\* sequences of distinct identities in descending order
DescIdSeqs ==
    {q \in UNION {[1..n -> Ids] : n \in 0..MaxGraphMigrations} :
        \A i, j \in 1..Len(q) : i < j => IdLess(q[j], q[i])}

\* larger dependency graphs: up to MaxGraphMigrations migrations with up to
\* MaxGraphDeps dependencies each, all on migrations of the set, at most
\* MaxEdges in all; one input order per set
GraphDeps(S) ==
    {D \in SUBSET {MigrationDependency_migration(id[1], id[2]) : id \in S} :
        Cardinality(D) <= MaxGraphDeps}

RECURSIVE EdgeCount(_, _)
EdgeCount(g, i) ==
    IF i = 0 THEN 0 ELSE Cardinality(g[i]) + EdgeCount(g, i - 1)

GraphsOver(q) ==
    {h \in [1..Len(q) -> GraphDeps(SeqRange(q))] : EdgeCount(h, Len(q)) <= MaxEdges}

InitSortGraph ==
    /\ \E q \in DescIdSeqs : \E g \in GraphsOver(q) :
          migrations = [i \in 1..Len(q) |-> DynMigration(q[i][1], q[i][2], g[i], <<>>)]
    /\ sorter = SorterIdle
    /\ sortRet = Pending
    /\ engine = NoEngine
    /\ db = FreshDb
    /\ run = IdleRun
    /\ hist = FreshHist
    /\ startup = StartupOff
    /\ other = IdleRun
    /\ probe = ProbeOff
    /\ gen = GenOff

SpecSortGraph == InitSortGraph /\ [][NextSort]_vars

Returned == sortRet.status = "returned"

\* migration at index j declares an on-migration dependency on the one at i
DependsOn(migs, j, i) ==
    \E d \in migs[j].dependencies :
        /\ d.kind = "Migration"
        /\ d.app = migs[i].app_name
        /\ d.migration = migs[i].name

RECURSIVE ReachK(_, _, _, _)
\* i is reachable from j through at most k dependency edges
ReachK(migs, j, i, k) ==
    /\ k > 0
    /\ \/ DependsOn(migs, j, i)
       \/ \E m \in 1..Len(migs) : DependsOn(migs, j, m) /\ ReachK(migs, m, i, k - 1)

Reaches(migs, j, i) == ReachK(migs, j, i, Len(migs))

HasCycle(migs) == \E i \in 1..Len(migs) : Reaches(migs, i, i)

PermsOf(s) == {[i \in 1..Len(s) |-> s[f[i]]] : f \in Permutations(1..Len(s))}

\* C1: whenever sort_migrations succeeds, every migration that another one
\* declares an on-migration dependency on stands at a strictly smaller index
\* than that dependent.
C1_TopologicalOrder ==
    (Returned /\ sortRet.ok) =>
        \A i, j \in 1..Len(sortRet.migrations) :
            DependsOn(sortRet.migrations, j, i) => i < j

\* a successful sort that had to move a dependency in front of its dependent
C1_Witness ==
    /\ Returned /\ sortRet.ok
    /\ \E i, j \in 1..Len(migrations) :
          /\ i < j
          /\ DependsOn(migrations, i, j)
          /\ Pos(sortRet.migrations, MigId(migrations[j]))
                < Pos(sortRet.migrations, MigId(migrations[i]))

StepBound(migs) ==
    2 * Len(migs) + 1
        + Cardinality({p \in (1..Len(migs)) \X (1..Len(migs)) :
                          DependsOn(migs, p[1], p[2])})

CyclicError ==
    /\ ~sortRet.ok
    /\ (AllResolved(migrations) => sortRet.err = "CyclicDependency")

C9_Deterministic ==
    Returned =>
        \A p \in PermsOf(migrations) :
            /\ sort_migrations(p).ok = sortRet.ok
            /\ sortRet.ok => sort_migrations(p).migrations = sortRet.migrations

\* a successful sort of three migrations that were not given in output order
C9_Witness ==
    /\ Returned /\ sortRet.ok
    /\ Len(migrations) = 3
    /\ sortRet.migrations # migrations
    /\ \E i \in 1..3 : migrations[i].dependencies # {}

\* the step at which a migration becomes ready: the output position of the
\* last of its dependencies, 0 when it has none
ReadyStep(out, j) ==
    LET deps == {i \in 1..Len(out) : DependsOn(out, j, i)}
    IN IF deps = {} THEN 0 ELSE CHOOSE i \in deps : \A k \in deps : k <= i

Independent(migs, i, j) == ~Reaches(migs, i, j) /\ ~Reaches(migs, j, i)

ModelDepUniverse ==
    {MigrationDependency_model(a, mo) : a \in Apps, mo \in 1..NumModels}

ModelDepSets ==
    {D \in SUBSET (DepUniverse \cup ModelDepUniverse) : Cardinality(D) <= MaxDeps}

\* a migration of app a either creates one model of the app or nothing
CreateOps(a) == {OpList(a, mo, n) : mo \in 1..NumModels, n \in 0..1}

ModelIdSeqs ==
    {q \in UNION {[1..n -> Ids] : n \in 0..MaxModelMigrations} :
        \A i, j \in 1..Len(q) : i < j => IdLess(q[j], q[i])}

\* migration sets with dependencies on migrations and on models, inside
\* and outside the set; one input order per set
InitSortModel ==
    /\ \E q \in ModelIdSeqs :
          \E g \in [1..Len(q) -> ModelDepSets] :
             \E o \in [1..Len(q) -> UNION {CreateOps(a) : a \in Apps}] :
                /\ \A i \in 1..Len(q) : o[i] \in CreateOps(q[i][1])
                /\ migrations =
                      [i \in 1..Len(q) |-> DynMigration(q[i][1], q[i][2], g[i], o[i])]
    /\ sorter = SorterIdle
    /\ sortRet = Pending
    /\ engine = NoEngine
    /\ db = FreshDb
    /\ run = IdleRun
    /\ hist = FreshHist
    /\ startup = StartupOff
    /\ other = IdleRun
    /\ probe = ProbeOff
    /\ gen = GenOff

SpecSortModel == InitSortModel /\ [][NextSort]_vars

\* dependency d names a migration that is not in migs, or a model that no
\* migration of migs creates
Dangling(migs, d) ==
    IF d.kind = "Migration"
    THEN ~\E j \in 1..Len(migs) : MigId(migs[j]) = <<d.app, d.migration>>
    ELSE ~\E j \in 1..Len(migs) : CreatesModel(migs[j], d.app, d.model_name)

HasDangling(migs) ==
    \E i \in 1..Len(migs) : \E d \in migs[i].dependencies : Dangling(migs, d)

\* C11: when some migration of the set declares a dependency on a migration
\* that is not in the set, or on a model that no migration of the set
\* creates, sort_migrations returns the unresolved-dependency error and not
\* an order.
C11_UnresolvedDependency ==
    (Returned /\ HasDangling(migrations)) =>
        (~sortRet.ok /\ sortRet.err = "UnresolvedDependency")

\* the sorter rejected a set in which every dependency on a migration
\* resolves but a model that is depended on is created by no migration
C11_Witness ==
    /\ Returned /\ ~sortRet.ok /\ sortRet.err = "UnresolvedDependency"
    /\ \E i \in 1..Len(migrations) : \E d \in migrations[i].dependencies :
          d.kind = "Model" /\ Dangling(migrations, d)
    /\ \A i \in 1..Len(migrations) : \A d \in migrations[i].dependencies :
          d.kind = "Migration" => ~Dangling(migrations, d)

\* engine inputs whose dependencies are dependencies on models
ModelOnlyDepSets == {D \in SUBSET ModelDepUniverse : Cardinality(D) <= MaxDeps}

ModelRunIdSeqs ==
    {q \in UNION {[1..n -> Ids] : n \in 1..MaxEngineMigrations} :
        \A i, j \in 1..Len(q) : i < j => IdLess(q[j], q[i])}

InitModelRun ==
    /\ \E q \in ModelRunIdSeqs :
          \E g \in [1..Len(q) -> ModelOnlyDepSets] :
             \E o \in [1..Len(q) -> UNION {OpLists(a) : a \in Apps}] :
                /\ \A i \in 1..Len(q) : o[i] \in OpLists(q[i][1])
                /\ migrations =
                      [i \in 1..Len(q) |-> DynMigration(q[i][1], q[i][2], g[i], o[i])]
    /\ sorter = SorterIdle
    /\ sortRet = Pending
    /\ engine = NoEngine
    /\ db = FreshDb
    /\ run = IdleRun
    /\ hist = FreshHist
    /\ startup = StartupOff
    /\ other = IdleRun
    /\ probe = ProbeOff
    /\ gen = GenOff

SpecModelRun == InitModelRun /\ [][Next]_vars

\* in the order out, a migration that creates the model of every on-model
\* dependency stands before the migration that declares the dependency
CreatorFirst(out) ==
    \A j \in 1..Len(out) : \A d \in out[j].dependencies :
        d.kind = "Model" =>
            \E i \in 1..(j - 1) : CreatesModel(out[i], d.app, d.model_name)

\* run has called forwards on an operation of migration id
Attempted(log, id) ==
    \E i \in 1..Len(log) : log[i].ev = "forwards" /\ log[i].id = id

\* every operation of the migration at index i has been executed forwards
AllForwarded(migs, i) ==
    \A k \in 1..Len(migs[i].operations) : <<MigId(migs[i]), k>> \in hist.fwdDone

\* C12: for every migration B with an on-model dependency, the migration
\* that creates that model stands strictly before B in the order the engine
\* got from sort_migrations, and when run executes an operation of B the
\* operations of that migration have been executed.
C12_ModelCreatorFirst ==
    engine.status = "ok" =>
        /\ CreatorFirst(engine.migrations)
        /\ \A j \in 1..Len(engine.migrations) :
              \A d \in engine.migrations[j].dependencies :
                 (d.kind = "Model" /\ Attempted(run.log, MigId(engine.migrations[j]))) =>
                     \E i \in 1..(j - 1) :
                        /\ CreatesModel(engine.migrations[i], d.app, d.model_name)
                        /\ AllForwarded(engine.migrations, i)

\* C13: when sort_migrations succeeds the slice holds a permutation of the
\* migrations it was given (none dropped, duplicated or replaced), and for an
\* empty slice it succeeds and the slice stays empty.
C13_Permutation ==
    Returned =>
        /\ sortRet.ok => sortRet.migrations \in PermsOf(migrations)
        /\ migrations = <<>> => (sortRet.ok /\ sortRet.migrations = <<>>)

\* a successful sort that had to reorder a slice of several migrations
C13_Witness ==
    /\ Returned /\ sortRet.ok
    /\ Len(migrations) >= 2
    /\ sortRet.migrations # migrations
    /\ SeqRange(sortRet.migrations) = SeqRange(migrations)

\* --------------------------------------------- construction of the engine

\* C14: when sorting the given migrations fails, MigrationEngine::new /
\* from_wrapper return the error and no engine exists, so run is never
\* called (no run is started, the database is untouched); when they succeed
\* the engine holds the migrations in the order sort_migrations produced, and
\* it still holds them in that order during and after every run.
C14_EngineOnlyFromSortedSet ==
    /\ engine.status # "none" =>
          (engine.status = "err" <=> ~sort_migrations(migrations).ok)
    /\ engine.status = "err" =>
          /\ engine.migrations = <<>>
          /\ run = IdleRun /\ hist.runs = 0 /\ db = FreshDb
    /\ hist.runs > 0 => engine.status = "ok"
    /\ engine.status = "ok" =>
          /\ engine.migrations = sort_migrations(migrations).migrations
          /\ \A i, j \in 1..Len(engine.migrations) :
                DependsOn(engine.migrations, j, i) => i < j

\* MigrationEngine::new returned the sorter's error for a cyclic set
C14_Witness ==
    /\ engine.status = "err"
    /\ Returned /\ ~sortRet.ok /\ sortRet.err = "CyclicDependency"
    /\ HasCycle(migrations)

\* ------------------------------------------------- more properties of run

\* C15: in every call of run the ledger-creation operation is the first
\* thing executed, before any ledger lookup and any operation of a
\* migration, and it is executed once; on a database that already has the
\* ledger table it succeeds (the database itself working) and changes
\* nothing: the rows of the ledger are the rows the run started with.
C15_BootstrapFirst ==
    /\ run.log # <<>> =>
          /\ run.log[1].ev = "bootstrap"
          /\ \A i \in 2..Len(run.log) : run.log[i].ev # "bootstrap"
    /\ run.pc \in {"check", "forwards", "mark"} =>
          (run.log # <<>> /\ run.log[1].ok)
    /\ db.tables[LedgerTable].exists =>
          LET r == Operation_forwards(db, CREATE_APPLIED_MIGRATIONS_MIGRATION, TRUE)
          IN r.ok /\ r.db = db
    /\ Len(run.log) = 1 => db.ledger = hist.ledgerAtStart

\* a later run has executed the ledger-creation operation successfully on a
\* database whose ledger already held rows
C15_Witness ==
    /\ hist.runs >= 2
    /\ Len(run.log) = 1
    /\ run.log[1].ev = "bootstrap" /\ run.log[1].ok
    /\ db.ledger # <<>>
    /\ db.ledger = hist.ledgerAtStart

\* C16: no step of any run, successful or failing, updates or deletes a
\* ledger row: after every step the ledger is the ledger before the step,
\* possibly with rows appended.
C16_LedgerGrowsOnly == [][IsPrefix(db.ledger, db'.ledger)]_vars

\* a run that followed a failed run has appended a row to a ledger that
\* already held one
C16_Witness ==
    /\ hist.runs >= 2
    /\ hist.prevResult = "err"
    /\ Len(hist.ledgerAtStart) >= 1
    /\ Len(db.ledger) > Len(hist.ledgerAtStart)
    /\ IsPrefix(hist.ledgerAtStart, db.ledger)

\* positions in a log at which run called forwards
ForwardsAt(log) == {i \in 1..Len(log) : log[i].ev = "forwards"}

\* the migration at index j declares a dependency, on a migration or on a
\* model, that resolves to the migration at index i
DependsOnAny(migs, j, i) == \E d \in migs[j].dependencies : Lookup(migs, d) = i

\* C17: the operations a run executes are executed one after the other in
\* the order of the engine's migrations and, inside a migration, in the order
\* of its operation list; so when B depends on A, every operation of A that
\* the run executes is executed before every operation of B it executes.
C17_SequentialOrder ==
    \A i, j \in ForwardsAt(run.log) :
        LET a == Pos(engine.migrations, run.log[i].id)
            b == Pos(engine.migrations, run.log[j].id)
        IN /\ i < j => (a < b \/ (a = b /\ run.log[i].oi < run.log[j].oi))
           /\ DependsOnAny(engine.migrations, b, a) => i < j

\* a run has executed an operation of a migration and, after it, an
\* operation of a migration that depends on it and that was given first
C17_Witness ==
    \E i, j \in ForwardsAt(run.log) :
        /\ i < j
        /\ run.log[i].ok /\ run.log[j].ok
        /\ DependsOn(engine.migrations,
                     Pos(engine.migrations, run.log[j].id),
                     Pos(engine.migrations, run.log[i].id))
        /\ Pos(migrations, run.log[j].id) < Pos(migrations, run.log[i].id)

\* C18: when forwards of an operation succeeded and the insertion of the
\* ledger row then fails, that failure is the last thing the run does: it
\* returns the error, the schema change of the operation (and of every
\* operation executed before) is still in place, the ledger has no row for
\* the migration, and the run has neither retried nor undone anything.
C18_LedgerWriteFailure ==
    \A i \in 1..Len(run.log) :
        (run.log[i].ev = "mark" /\ ~run.log[i].ok) =>
            /\ i = Len(run.log)
            /\ run.pc = "returned" /\ run.result = "err"
            /\ i > 1
            /\ run.log[i - 1] = Event("forwards", run.log[i].id, run.log[i].oi, TRUE)
            /\ ~HasRow(run.log[i].id)
            /\ \A j \in 1..(i - 1) :
                  (run.log[j].ev = "forwards" /\ run.log[j].ok) =>
                      EffectPresent(MigById(run.log[j].id).operations[run.log[j].oi])
            /\ IsPrefix(hist.ledgerAtStart, db.ledger)

\* run returned the error of a failed ledger insertion with the schema
\* change of the operation in place and no row for the migration
C18_Witness ==
    /\ run.pc = "returned" /\ run.result = "err"
    /\ Len(run.log) >= 2
    /\ run.log[Len(run.log)].ev = "mark" /\ ~run.log[Len(run.log)].ok
    /\ EffectPresent(MigById(run.log[Len(run.log)].id).operations[run.log[Len(run.log)].oi])
    /\ ~HasRow(run.log[Len(run.log)].id)

\* the operations of the engine's migrations and the bootstrap operation
EngineOperations ==
    {CREATE_APPLIED_MIGRATIONS_MIGRATION}
        \cup UNION {SeqRange(engine.migrations[i].operations) :
                        i \in 1..Len(engine.migrations)}

\* C19: no step of run, on the success, the skip or the failure path, has
\* the effect of the backwards direction of an operation: no step leaves the
\* schema as backwards of an operation would leave it, and no table and no
\* column that exists is ever dropped.
C19_NeverBackwards ==
    [][ /\ \A op \in EngineOperations :
              Operation_backwards(db, op, TRUE).ok =>
                  db'.tables # Operation_backwards(db, op, TRUE).db.tables
        /\ \A t \in AllTables :
              db.tables[t].exists =>
                  /\ db'.tables[t].exists
                  /\ db.tables[t].fields \subseteq db'.tables[t].fields ]_vars

\* a run has returned an error after it had executed an operation, whose
\* schema change is still there
C19_Witness ==
    /\ run.pc = "returned" /\ run.result = "err"
    /\ \E j \in ForwardsAt(run.log) :
          /\ run.log[j].ok
          /\ j < Len(run.log)
          /\ EffectPresent(MigById(run.log[j].id).operations[run.log[j].oi])
          /\ Operation_backwards(db, MigById(run.log[j].id).operations[run.log[j].oi], TRUE).ok

\* ---------------------------------------------------- application startup

\* context.apps, in the order they were registered
ContextApps == [i \in 1..NumApps |-> i]

\* app.migrations() of the app at index i of context.apps
AppMigrations(i) ==
    LET OfApp(m) == m.app_name = ContextApps[i]
    IN SelectSeq(migrations, OfApp)

\* the vector run_at collects: the migrations of every app, app after app
RECURSIVE CollectMigrations(_)
CollectMigrations(n) ==
    IF n = 0 THEN <<>> ELSE CollectMigrations(n - 1) \o AppMigrations(n)

\* run_at is entered with the bootstrapper initialized, with or without a
\* database
InitStartup ==
    /\ migrations \in EngineInputs
    /\ sorter = SorterIdle
    /\ sortRet = Pending
    /\ engine = NoEngine
    /\ db = FreshDb
    /\ run = IdleRun
    /\ hist = FreshHist
    /\ \E has_db \in BOOLEAN :
          startup = [StartupOff EXCEPT !.pc = "start", !.has_db = has_db]
    /\ other = IdleRun
    /\ probe = ProbeOff
    /\ gen = GenOff

\* if let Some(database) = &context.database: no database, no migrations
StartupNoDb ==
    /\ startup.pc = "start"
    /\ ~startup.has_db
    /\ startup' = [startup EXCEPT !.pc = "init"]
    /\ UNCHANGED <<migrations, sorter, sortRet, engine, db, run, hist, other, probe, gen>>

\* let migration_engine = MigrationEngine::new(migrations)?
StartupNew ==
    /\ startup.pc = "start"
    /\ startup.has_db
    /\ LET collected == CollectMigrations(Len(ContextApps))
           r == sort_migrations(collected)
       IN /\ sorter' = SorterRun(SorterNew(collected))
          /\ sortRet' = r
          /\ engine' = IF r.ok
                        THEN [status |-> "ok", migrations |-> r.migrations]
                        ELSE [status |-> "err", migrations |-> <<>>]
          /\ startup' = IF r.ok
                         THEN [startup EXCEPT !.pc = "engine"]
                         ELSE [startup EXCEPT !.pc = "failed", !.err = "engine"]
    /\ UNCHANGED <<migrations, db, run, hist, other, probe, gen>>

\* migration_engine.run(database) is called
StartupRun ==
    /\ startup.pc = "engine"
    /\ run' = [IdleRun EXCEPT !.pc = "bootstrap"]
    /\ hist' = [hist EXCEPT !.runs = @ + 1, !.prevResult = run.result,
                            !.prevLog = run.log, !.ledgerAtStart = db.ledger]
    /\ startup' = [startup EXCEPT !.pc = "migrating"]
    /\ UNCHANGED <<migrations, sorter, sortRet, engine, db, other, probe, gen>>

\* run_at going on to the apps although run returned an error
StartupAfterRun_ignore_error ==
    /\ startup.pc = "migrating"
    /\ run.pc = "returned"
    /\ startup' = IF run.result = "crashed"
                   THEN [startup EXCEPT !.pc = "dead"]
                   ELSE [startup EXCEPT !.pc = "init"]
    /\ UNCHANGED <<migrations, sorter, sortRet, engine, db, run, hist, other, probe, gen>>

\* .await? on run: Ok goes on, an error is returned from run_at; a process
\* that died in run does nothing any more
StartupAfterRun ==
    /\ startup.pc = "migrating"
    /\ run.pc = "returned"
    /\ startup' = CASE run.result = "ok" -> [startup EXCEPT !.pc = "init"]
                     [] run.result = "crashed" -> [startup EXCEPT !.pc = "dead"]
                     [] OTHER -> [startup EXCEPT !.pc = "failed", !.err = "run"]
    /\ UNCHANGED <<migrations, sorter, sortRet, engine, db, run, hist, other, probe, gen>>

\* app.init(&mut context).await? for the next app
StartupInitApp ==
    /\ startup.pc = "init"
    /\ startup.next_app <= Len(ContextApps)
    /\ \E ok \in BOOLEAN :
          startup' = IF ok
                     THEN [startup EXCEPT !.inited = @ \cup {ContextApps[startup.next_app]},
                                          !.next_app = @ + 1]
                     ELSE [startup EXCEPT !.pc = "failed", !.err = "init"]
    /\ UNCHANGED <<migrations, sorter, sortRet, engine, db, run, hist, other, probe, gen>>

\* axum::serve(listener, handler): the server starts to accept requests
StartupServe ==
    /\ startup.pc = "init"
    /\ startup.next_app > Len(ContextApps)
    /\ \E ok \in BOOLEAN :
          startup' = IF ok
                     THEN [startup EXCEPT !.pc = "serving"]
                     ELSE [startup EXCEPT !.pc = "failed", !.err = "server"]
    /\ UNCHANGED <<migrations, sorter, sortRet, engine, db, run, hist, other, probe, gen>>

\* the handler serves one request
HandleRequest ==
    /\ startup.pc = "serving"
    /\ startup.served < MaxRequests
    /\ startup' = [startup EXCEPT !.served = @ + 1]
    /\ UNCHANGED <<migrations, sorter, sortRet, engine, db, run, hist, other, probe, gen>>

NextStartup ==
    \/ StartupNoDb
    \/ StartupNew
    \/ StartupRun
    \/ RunBootstrap
    \/ RunCheck
    \/ RunForwards
    \/ RunMark
    \/ RunCrash
    \/ StartupAfterRun
    \/ StartupInitApp
    \/ StartupServe
    \/ HandleRequest

SpecStartup == InitStartup /\ [][NextStartup]_vars

\* an app has been initialized or a request may be or has been served
PastMigrations ==
    \/ startup.pc \in {"init", "serving"}
    \/ startup.inited # {}
    \/ startup.served > 0

\* C20: when the application starts with a database, no app is initialized
\* and no request is served unless the engine has been constructed from the
\* migrations of all apps and its one run has returned Ok; and when the
\* construction or the run fails, startup returns that error with no app
\* initialized and no request served, then or later.
C20_MigrateBeforeServing ==
    startup.has_db =>
        /\ PastMigrations =>
              /\ engine.status = "ok"
              /\ EngineIds = {MigId(migrations[i]) : i \in 1..Len(migrations)}
              /\ hist.runs = 1
              /\ run.pc = "returned" /\ run.result = "ok"
        /\ engine.status = "err" =>
              (startup.pc = "failed" /\ startup.err = "engine" /\ hist.runs = 0)
        /\ (run.pc = "returned" /\ run.result = "err") =>
              \/ startup.pc = "migrating"
              \/ startup.pc = "failed" /\ startup.err = "run"
        /\ startup.pc \in {"start", "engine", "migrating", "dead"} =>
              (startup.inited = {} /\ startup.served = 0)
        /\ (startup.pc = "failed" /\ startup.err \in {"engine", "run"}) =>
              (startup.inited = {} /\ startup.served = 0)

\* the application serves requests after its run has applied and recorded
\* the migrations of two apps and every app has been initialized
C20_Witness ==
    /\ startup.has_db
    /\ startup.served > 0
    /\ startup.inited = SeqRange(ContextApps)
    /\ run.result = "ok"
    /\ Len(db.ledger) >= 2
    /\ \E i, j \in 1..Len(engine.migrations) :
          engine.migrations[i].app_name # engine.migrations[j].app_name

\* ------------------------------------------- two runs on one database

\* a migration whose table is created with IF NOT EXISTS (the builder's
\* if_not_exists()), followed by the added fields
IdempotentOpList(a, mo, n) ==
    [k \in 1..n |->
        IF k = 1 THEN Operation_create_model(<<a, mo>>, TRUE)
        ELSE Operation_add_field(<<a, mo>>, ((k - 2) % NumFields) + 1)]

IdempotentOpLists(a) == {IdempotentOpList(a, mo, n) : mo \in 1..NumModels, n \in 1..MaxOps}

\* migrations without dependencies: the order between them is by name
IdempotentMigrations ==
    UNION {{DynMigration(id[1], id[2], {}, ops) :
               ops \in OpLists(id[1]) \cup IdempotentOpLists(id[1])} :
              id \in Ids}

\* one order per set, as for EngineInputs
IdempotentInputs ==
    {s \in UNION {[1..n -> IdempotentMigrations] : n \in 1..MaxEngineMigrations} :
        \A i, j \in 1..Len(s) : i < j => IdLess(MigId(s[j]), MigId(s[i]))}

InitConcurrent ==
    /\ migrations \in IdempotentInputs
    /\ sorter = SorterIdle
    /\ sortRet = Pending
    /\ engine = NoEngine
    /\ db = FreshDb
    /\ run = IdleRun
    /\ hist = FreshHist
    /\ startup = StartupOff
    /\ other = IdleRun
    /\ probe = ProbeOff
    /\ gen = GenOff

OtherMigration == engine.migrations[other.mi]
OtherOperation == OtherMigration.operations[other.oi]

\* the first of the two calls of MigrationEngine::run
FirstStart ==
    /\ engine.status = "ok"
    /\ run.pc = "idle"
    /\ run' = [IdleRun EXCEPT !.pc = "bootstrap"]
    /\ hist' = [hist EXCEPT !.runs = @ + 1, !.ledgerAtStart = db.ledger]
    /\ UNCHANGED <<migrations, sorter, sortRet, engine, db, startup, other, probe, gen>>

\* the second call of MigrationEngine::run, by another process or thread with
\* the same migration set, on the same database
OtherStart ==
    /\ engine.status = "ok"
    /\ other.pc = "idle"
    /\ other' = [IdleRun EXCEPT !.pc = "bootstrap"]
    /\ UNCHANGED <<migrations, sorter, sortRet, engine, db, run, hist, startup, probe, gen>>

\* CREATE_APPLIED_MIGRATIONS_MIGRATION.forwards(database).await? of the
\* second call
OtherBootstrap ==
    /\ other.pc = "bootstrap"
    /\ \E dbOk \in BOOLEAN :
          LET r == Operation_forwards(db, CREATE_APPLIED_MIGRATIONS_MIGRATION, dbOk)
              e == Event("bootstrap", LedgerTable, 0, r.ok)
          IN /\ db' = r.db
             /\ other' = IF r.ok
                          THEN Continue(other, <<FirstWithOps(engine.migrations, 1), 1>>, e)
                          ELSE Fail(other, e)
    /\ UNCHANGED <<migrations, sorter, sortRet, engine, run, hist, startup, probe, gen>>

\* is_migration_applied of the second call
OtherCheck ==
    /\ other.pc = "check"
    /\ \E dbOk \in BOOLEAN :
          LET r == is_migration_applied(db, OtherMigration, dbOk)
              e == Event("check", MigId(OtherMigration), other.oi, r.ok)
              skip == Event("skip", MigId(OtherMigration), other.oi, TRUE)
          IN other' = IF ~r.ok THEN Fail(other, e)
                      ELSE IF r.applied
                      THEN Continue(other, Advance(engine.migrations, other.mi, other.oi),
                                    skip)
                      ELSE [other EXCEPT !.pc = "forwards", !.log = Append(@, e)]
    /\ UNCHANGED <<migrations, sorter, sortRet, engine, db, run, hist, startup, probe, gen>>

\* operation.forwards(database).await? of the second call
OtherForwards ==
    /\ other.pc = "forwards"
    /\ \E dbOk \in BOOLEAN :
          LET r == Operation_forwards(db, OtherOperation, dbOk)
              e == Event("forwards", MigId(OtherMigration), other.oi, r.ok)
          IN /\ db' = r.db
             /\ other' = IF r.ok
                          THEN [other EXCEPT !.pc = "mark", !.log = Append(@, e)]
                          ELSE Fail(other, e)
    /\ UNCHANGED <<migrations, sorter, sortRet, engine, run, hist, startup, probe, gen>>

\* mark_migration_applied of the second call
OtherMark ==
    /\ other.pc = "mark"
    /\ \E dbOk \in BOOLEAN :
          LET r == mark_migration_applied(db, OtherMigration, dbOk)
              e == Event("mark", MigId(OtherMigration), other.oi, r.ok)
          IN /\ db' = r.db
             /\ other' = IF r.ok
                          THEN Continue(other, Advance(engine.migrations, other.mi, other.oi),
                                        e)
                          ELSE Fail(other, e)
    /\ UNCHANGED <<migrations, sorter, sortRet, engine, run, hist, startup, probe, gen>>

\* the steps of the two calls interleave freely: run takes no lock and opens
\* no transaction
NextConcurrent ==
    \/ EngineNew
    \/ FirstStart
    \/ RunBootstrap
    \/ RunCheck
    \/ RunForwards
    \/ RunMark
    \/ OtherStart
    \/ OtherBootstrap
    \/ OtherCheck
    \/ OtherForwards
    \/ OtherMark

SpecConcurrent == InitConcurrent /\ [][NextConcurrent]_vars

\* the event a step of a call appended to its log, if it appended one
Appended(before, after) ==
    /\ Len(after.log) = Len(before.log) + 1
    /\ before.log = SubSeq(after.log, 1, Len(before.log))

LastEvent(r) == r.log[Len(r.log)]

OkEvents(log, ev, id) ==
    {i \in 1..Len(log) : log[i].ev = ev /\ log[i].ok /\ log[i].id = id}

\* what a step of one call does depends on the ledger alone, never on where
\* the other call stands
StepIgnoresOtherCall(before, after) ==
    Appended(before, after) =>
        LET e == LastEvent(after)
        IN /\ (e.ev = "check" /\ e.ok) =>
                 (~HasRow(e.id) /\ after.pc = "forwards")
           /\ e.ev = "skip" => HasRow(e.id)
           /\ (e.ev = "mark" /\ e.ok) =>
                 db'.ledger = Append(db.ledger, [id |-> Len(db.ledger) + 1,
                                                 app |-> e.id[1], name |-> e.id[2]])

\* C21: MigrationEngine::run provides no mutual exclusion. When two calls
\* over the same migration set interleave on one database, each call decides
\* from the ledger rows alone: its check finds a migration absent and goes on
\* to forwards whenever the ledger has no row for it, whatever the other call
\* is doing, and its successful ledger write appends a row whether or not a
\* row for that migration is there already.
C21_NoMutualExclusion ==
    [][StepIgnoresOtherCall(run, run') /\ StepIgnoresOtherCall(other, other')]_vars

\* both calls found migration M absent, both executed its forwards operation
\* with success and both inserted a ledger row: M is recorded twice
C21_Witness ==
    \E id \in EngineIds :
        /\ OkEvents(run.log, "check", id) # {}
        /\ OkEvents(other.log, "check", id) # {}
        /\ OkEvents(run.log, "forwards", id) # {}
        /\ OkEvents(other.log, "forwards", id) # {}
        /\ OkEvents(run.log, "mark", id) # {}
        /\ OkEvents(other.log, "mark", id) # {}
        /\ Cardinality(RowsOf(db.ledger, id)) = 2

\* ---------------------------------- one operation, forwards then backwards

\* the schemas the operation can meet: every table is absent, or present
\* with the fields of its model (field 0) and any of the added fields
ProbeTables ==
    [AllTables -> {[exists |-> FALSE, fields |-> {}]}
                  \cup {[exists |-> TRUE, fields |-> {0} \cup F] : F \in SUBSET Fields}]

\* the operations the builders can build, the bootstrap operation included
ProbeOperations ==
    {Operation_create_model(t, ine) : t \in AllTables, ine \in BOOLEAN}
    \cup {Operation_add_field(t, f) : t \in Tables, f \in Fields}

InitProbe ==
    /\ migrations = <<>>
    /\ sorter = SorterIdle
    /\ sortRet = Pending
    /\ engine = NoEngine
    /\ \E tables \in ProbeTables : db = [tables |-> tables, ledger |-> <<>>]
    /\ run = IdleRun
    /\ hist = FreshHist
    /\ startup = StartupOff
    /\ other = IdleRun
    /\ \E op \in ProbeOperations :
          probe = [pc |-> "forwards", op |-> op, before |-> db.tables,
                   forwards_ok |-> FALSE, backwards_ok |-> FALSE]
    /\ gen = GenOff

\* operation.forwards(database)
ProbeForwards ==
    /\ probe.pc = "forwards"
    /\ \E dbOk \in BOOLEAN :
          LET r == Operation_forwards(db, probe.op, dbOk)
          IN /\ db' = r.db
             /\ probe' = [probe EXCEPT !.pc = IF r.ok THEN "backwards" ELSE "done",
                                       !.forwards_ok = r.ok]
    /\ UNCHANGED <<migrations, sorter, sortRet, engine, run, hist, startup, other, gen>>

\* operation.backwards(database)
ProbeBackwards ==
    /\ probe.pc = "backwards"
    /\ \E dbOk \in BOOLEAN :
          LET r == Operation_backwards(db, probe.op, dbOk)
          IN /\ db' = r.db
             /\ probe' = [probe EXCEPT !.pc = "done", !.backwards_ok = r.ok]
    /\ UNCHANGED <<migrations, sorter, sortRet, engine, run, hist, startup, other, gen>>

NextProbe == ProbeForwards \/ ProbeBackwards

SpecProbe == InitProbe /\ [][NextProbe]_vars

\* C22: for any operation and any database state in which its forwards
\* succeeds, executing forwards and then backwards leaves the schema as it
\* was before forwards.
C22_BackwardsRestoresSchema ==
    (probe.pc = "done" /\ probe.forwards_ok /\ probe.backwards_ok) =>
        db.tables = probe.before

\* ------------------------------------------------- migration generator
\* flareon-cli/src/migration_generator.rs. Table names and column names are
\* strings in the source; they are small naturals here whose numeric order
\* stands for the lexicographic order of the strings.

GenTables == 1..NumGenTables
Columns == 1..NumColumns
Types == 1..NumTypes

\* a Field of a model: its column name, and ty standing for the rest of its
\* definition (type, auto_value, primary_key, foreign_key, unique)
GenField(column_name, ty) == [column_name |-> column_name, ty |-> ty]

\* a model found in the sources (ModelInSource): an application model, or
\* the snapshot of one kept in a migration file
GenModel(model_type, table_name, fields) ==
    [model_type |-> model_type, table_name |-> table_name, fields |-> fields]

\* HashMap built by inserting the entries of a sequence in order under
\* key[i]: a later entry replaces an earlier one with the same key
LastWins(entries, key) ==
    [k \in {key[i] : i \in 1..Len(entries)} |->
        entries[CHOOSE i \in 1..Len(entries) :
                    /\ key[i] = k
                    /\ \A j \in 1..Len(entries) : key[j] = k => j <= i]]

ModelsMap(models) == LastWins(models, [i \in 1..Len(models) |-> models[i].table_name])

FieldsMap(model) ==
    LastWins(model.fields, [i \in 1..Len(model.fields) |-> model.fields[i].column_name])

\* the operations of a generated migration (DynOperation)
DynOperation_CreateModel(table_name, fields) ==
    [kind |-> "CreateModel", table_name |-> table_name, fields |-> fields]

DynOperation_AddField(table_name, field) ==
    [kind |-> "AddField", table_name |-> table_name, field |-> field]

\* make_create_model_operation listing the columns in name order
make_create_model_operation_sorted(app_model) ==
    LET m == FieldsMap(app_model)
        names == SetToSeq(DOMAIN m)
    IN DynOperation_CreateModel(app_model.table_name,
                                [i \in 1..Len(names) |-> m[names[i]]])

make_create_model_operation(app_model) ==
    DynOperation_CreateModel(app_model.table_name, app_model.fields)

make_add_field_operation(app_model, field) ==
    DynOperation_AddField(app_model.table_name, field)

\* the outcome of a generation step: the operations pushed so far, or the
\* panic of a todo!()
NoOperations == [panic |-> FALSE, modified_models |-> <<>>, operations |-> <<>>]

Todo(acc) == [acc EXCEPT !.panic = TRUE]

\* make_alter_field_operation treating a changed field as unchanged
make_alter_field_operation_silent(acc, app_field, migration_field) == acc

\* make_alter_field_operation: None for an unchanged field, todo!() otherwise
make_alter_field_operation(acc, app_field, migration_field) ==
    IF app_field = migration_field THEN acc ELSE Todo(acc)

make_remove_field_operation(acc, migration_field) == Todo(acc)

make_remove_model_operation(acc, migration_model) == Todo(acc)

\* the loop of make_alter_model_operations over the sorted column names
RECURSIVE AlterFields(_, _, _, _, _, _)
AlterFields(app_model, app_fields, migration_fields, names, k, acc) ==
    IF acc.panic \/ k > Len(names) THEN acc
    ELSE LET c == names[k]
             next ==
                 IF c \in DOMAIN app_fields /\ c \notin DOMAIN migration_fields
                 THEN [acc EXCEPT !.operations =
                          Append(@, make_add_field_operation(app_model, app_fields[c]))]
                 ELSE IF c \in DOMAIN app_fields
                 THEN make_alter_field_operation(acc, app_fields[c], migration_fields[c])
                 ELSE make_remove_field_operation(acc, migration_fields[c])
         IN AlterFields(app_model, app_fields, migration_fields, names, k + 1, next)

\* make_alter_model_operations visiting the columns in declared order
make_alter_model_operations_unsorted(acc, app_model, migration_model) ==
    LET app_fields == FieldsMap(app_model)
        migration_fields == FieldsMap(migration_model)
        declared == [i \in 1..Len(app_model.fields) |-> app_model.fields[i].column_name]
        names == declared \o SetToSeq((DOMAIN migration_fields) \ (DOMAIN app_fields))
    IN AlterFields(app_model, app_fields, migration_fields, names, 1, acc)

\* make_alter_model_operations: the operations that turn the snapshot into
\* the application model, appended to acc
make_alter_model_operations(acc, app_model, migration_model) ==
    LET app_fields == FieldsMap(app_model)
        migration_fields == FieldsMap(migration_model)
        names == SetToSeq((DOMAIN app_fields) \cup (DOMAIN migration_fields))
    IN AlterFields(app_model, app_fields, migration_fields, names, 1, acc)

\* the loop of generate_operations over the sorted table names
RECURSIVE DiffModels(_, _, _, _, _)
DiffModels(app_models_map, migration_models_map, names, k, acc) ==
    IF acc.panic \/ k > Len(names) THEN acc
    ELSE LET t == names[k]
             next ==
                 IF t \in DOMAIN app_models_map /\ t \notin DOMAIN migration_models_map
                 THEN [acc EXCEPT
                          !.operations =
                              Append(@, make_create_model_operation(app_models_map[t])),
                          !.modified_models = Append(@, app_models_map[t])]
                 ELSE IF t \in DOMAIN app_models_map
                 THEN IF app_models_map[t] # migration_models_map[t]
                      THEN make_alter_model_operations(
                               [acc EXCEPT !.modified_models = Append(@, app_models_map[t])],
                               app_models_map[t], migration_models_map[t])
                      ELSE acc
                 ELSE make_remove_model_operation(acc, migration_models_map[t])
         IN DiffModels(app_models_map, migration_models_map, names, k + 1, next)

\* MigrationGenerator::generate_operations
generate_operations(app_models, migration_models) ==
    LET app_models_map == ModelsMap(app_models)
        migration_models_map == ModelsMap(migration_models)
        names == SetToSeq((DOMAIN app_models_map) \cup (DOMAIN migration_models_map))
    IN DiffModels(app_models_map, migration_models_map, names, 1, NoOperations)

\* --------------------------------------------------- migration names
\* A migration name is a string; here it is the sequence of its characters,
\* a character being a number: the digits are 0..9, '_' comes after the
\* digits and the lower-case letters after '_', as in ASCII.
CH_US == 10
CH_a == 11
CH_i == 19
CH_m == 23

Digits == 0..9

\* "m_<number>_<slug>"
MigrationName(number, slug) == <<CH_m, CH_US>> \o number \o <<CH_US>> \o slug

\* the order of str: byte by byte, a proper prefix first
StrLess(a, b) ==
    \E k \in 1..(Len(a) + 1) :
        /\ \A j \in 1..(k - 1) : j <= Len(b) /\ a[j] = b[j]
        /\ \/ k = Len(a) + 1 /\ k <= Len(b)
           \/ k <= Len(a) /\ k <= Len(b) /\ a[k] < b[k]

\* "initial" and "auto_<date_time>", one letter each
SlugInitial == <<CH_i>>
SlugAuto == <<CH_a>>

\* u32::MAX, 4294967295
U32Max == <<4, 2, 9, 4, 9, 6, 7, 2, 9, 5>>

\* names as the generator writes them, m_0001_initial .. m_000k_auto
PlainNames ==
    {MigrationName(<<0, 0, 0, 1>>, SlugInitial)}
    \cup {MigrationName(<<0, 0, 0, k>>, SlugAuto) : k \in 2..(MaxHistory + 1)}

\* names a migration file can have besides
OtherNames ==
    {MigrationName(n, SlugAuto) :
        n \in {<<0, 0, 0, 9>>, <<0, 0, 9, 9>>, <<9, 9, 9, 9>>, <<1, 0, 0, 0, 0>>, <<7>>,
               <<0, 0, 0, 0, 0, 1, 2>>, <<>>, U32Max,
               <<4, 2, 9, 4, 9, 6, 7, 2, 9, 6>>}}
    \cup {<<CH_m, 0, 0, 0, 1, CH_US>> \o SlugInitial,
          <<CH_m, CH_US, CH_a, CH_US>> \o SlugInitial,
          <<CH_m>>}

NameStrings == PlainNames \cup OtherNames

\* a name inside a migration record is the rank of its string: the numeric
\* order of the ranks is the order of the strings
NameRanks == [str \in NameStrings |-> 1 + Cardinality({x \in NameStrings : StrLess(x, str)})]

NameRank(str) == NameRanks[str]

NameStringOf ==
    [name \in 1..Cardinality(NameStrings) |->
        CHOOSE str \in NameStrings : NameRanks[str] = name]

NameString(name) == NameStringOf[name]

\* str.split('_').nth(1)
SplitNth1(str) ==
    LET us == {i \in 1..Len(str) : str[i] = CH_US}
    IN IF us = {} THEN [some |-> FALSE, str |-> <<>>]
       ELSE LET p == CHOOSE i \in us : \A j \in us : i <= j
                after == {i \in us : i > p} \cup {Len(str) + 1}
                q == CHOOSE i \in after : \A j \in after : i <= j
            IN [some |-> TRUE, str |-> SubSeq(str, p + 1, q - 1)]

\* a number without its leading zeros; zero is the empty sequence
RECURSIVE StripZeros(_)
StripZeros(d) == IF d # <<>> /\ d[1] = 0 THEN StripZeros(Tail(d)) ELSE d

NumberLeq(a, b) == Len(a) < Len(b) \/ (Len(a) = Len(b) /\ ~StrLess(b, a))

\* str.parse::<u32>(): decimal digits, at least one, value at most u32::MAX
ParseU32(str) ==
    IF str = <<>> \/ (\E i \in 1..Len(str) : str[i] \notin Digits)
       \/ ~NumberLeq(StripZeros(str), U32Max)
    THEN [ok |-> FALSE, value |-> <<>>]
    ELSE [ok |-> TRUE, value |-> StripZeros(str)]

RECURSIVE PlusOne(_)
PlusOne(d) ==
    IF d = <<>> THEN <<1>>
    ELSE IF d[Len(d)] < 9 THEN [d EXCEPT ![Len(d)] = @ + 1]
    ELSE PlusOne(SubSeq(d, 1, Len(d) - 1)) \o <<0>>

\* format!("{:04}"): at least four digits, padded with zeros
Format04(d) == [i \in 1..(4 - Len(d)) |-> 0] \o d

\* a migration read from a migration file: its snapshot models, no
\* dependencies and no operations as far as the generator is concerned
GenMigration(app_name, name, models) ==
    [app_name |-> app_name, name |-> name, dependencies |-> {}, operations |-> <<>>,
     models |-> models]

DynDependency_Migration(app, migration) ==
    [kind |-> "Migration", app |-> app, migration |-> migration]

\* MigrationProcessor::new keeping the migrations in the order they were found
MigrationProcessor_new_unsorted(migs) ==
    [ok |-> TRUE, migrations |-> migs]

\* MigrationProcessor::new: the migrations in sorted order, or the error of
\* sort_migrations
MigrationProcessor_new(migs) ==
    LET r == sort_migrations(migs)
    IN [ok |-> r.ok, migrations |-> IF r.ok THEN r.migrations ELSE <<>>]

\* the snapshot models of the migrations, in the order the loops of
\* latest_models visit them
RECURSIVE AllSnapshots(_)
AllSnapshots(migs) ==
    IF migs = <<>> THEN <<>> ELSE migs[1].models \o AllSnapshots(Tail(migs))

\* latest_models keeping the first snapshot found of a table
latest_models_first(migs) == ModelsMap(Reverse(AllSnapshots(migs)))

\* MigrationProcessor::latest_models, as the map it collects the values of
latest_models(migs) == ModelsMap(AllSnapshots(migs))

\* next_migration_name numbering the first migration like any other
next_migration_name_auto(migs) ==
    IF migs = <<>>
    THEN {[kind |-> "ok", name |-> MigrationName(Format04(PlusOne(<<>>)), SlugAuto)]}
    ELSE {[kind |-> "err", name |-> <<>>]}

next_migration_name_lenient(migs) ==
    IF migs = <<>>
    THEN {[kind |-> "ok", name |-> MigrationName(<<0, 0, 0, 1>>, SlugInitial)]}
    ELSE LET seg == SplitNth1(NameString(migs[Len(migs)].name))
             num == ParseU32(seg.str)
         IN IF num.ok /\ num.value = U32Max
            THEN {[kind |-> "panic", name |-> <<>>],
                  [kind |-> "ok", name |-> MigrationName(Format04(<<>>), SlugAuto)]}
            ELSE {[kind |-> "ok",
                   name |-> MigrationName(Format04(PlusOne(num.value)), SlugAuto)]}

\* the outcomes of MigrationProcessor::next_migration_name. The addition
\* last_migration_number + 1 on u32 overflows at u32::MAX: a build with
\* overflow checks panics, one without wraps around to 0
next_migration_name(migs) ==
    IF migs = <<>>
    THEN {[kind |-> "ok", name |-> MigrationName(<<0, 0, 0, 1>>, SlugInitial)]}
    ELSE LET last == NameString(migs[Len(migs)].name)
             seg == SplitNth1(last)
             num == ParseU32(seg.str)
         IN IF ~seg.some \/ ~num.ok THEN {[kind |-> "err", name |-> <<>>]}
            ELSE IF num.value = U32Max
            THEN {[kind |-> "panic", name |-> <<>>],
                  [kind |-> "ok", name |-> MigrationName(Format04(<<>>), SlugAuto)]}
            ELSE {[kind |-> "ok",
                   name |-> MigrationName(Format04(PlusOne(num.value)), SlugAuto)]}

\* MigrationProcessor::base_dependencies
base_dependencies(migs) ==
    IF migs = <<>> THEN <<>>
    ELSE <<DynDependency_Migration(migs[Len(migs)].app_name, migs[Len(migs)].name)>>

\* ------------------------------------------- the generator, step by step

\* the crate the generator works on; the app_name option is 0 when not set
CrateName == 1
AppNameOptions == {0} \cup Apps

NoGenerated == [kind |-> "pending", migration_name |-> <<>>, dependencies |-> <<>>]

NoFile ==
    [written |-> FALSE, APP_NAME |-> 0, MIGRATION_NAME |-> <<>>, DEPENDENCIES |-> <<>>,
     OPERATIONS |-> <<>>]

\* the generator before generate_migrations, with the application models and
\* the migrations process_source_files found
GenStart(app_name, models, migs) ==
    [pc |-> "process", crate_name |-> CrateName, app_name |-> app_name,
     models |-> models, migrations |-> migs,
     processor |-> [ok |-> FALSE, migrations |-> <<>>],
     migration_models |-> <<>>, result |-> NoOperations, out |-> NoGenerated,
     file |-> NoFile]

\* let migration_processor = MigrationProcessor::new(migrations)?;
\* let migration_models = migration_processor.latest_models();
GenProcess ==
    /\ gen.pc = "process"
    /\ LET p == MigrationProcessor_new(gen.migrations)
       IN gen' = IF p.ok
                 THEN [gen EXCEPT !.pc = "operations", !.processor = p,
                                  !.migration_models = latest_models(p.migrations)]
                 ELSE [gen EXCEPT !.pc = "done", !.processor = p, !.out.kind = "err"]
    /\ UNCHANGED <<migrations, sorter, sortRet, engine, db, run, hist, startup, other, probe>>

\* self.generate_operations(&models, &migration_models), the snapshot models
\* being handed over in the order the HashMap of latest_models yields them;
\* Ok(None) when there is no operation
GenOperations ==
    /\ gen.pc = "operations"
    /\ \E migration_models \in PermsOf(
              [i \in 1..Cardinality(DOMAIN gen.migration_models) |->
                  gen.migration_models[SetToSeq(DOMAIN gen.migration_models)[i]]]) :
          LET r == generate_operations(gen.models, migration_models)
          IN gen' = IF r.panic
                    THEN [gen EXCEPT !.pc = "done", !.result = r, !.out.kind = "panic"]
                    ELSE IF r.operations = <<>>
                    THEN [gen EXCEPT !.pc = "done", !.result = r, !.out.kind = "none"]
                    ELSE [gen EXCEPT !.pc = "name", !.result = r]
    /\ UNCHANGED <<migrations, sorter, sortRet, engine, db, run, hist, startup, other, probe>>

\* migration_processor.next_migration_name()?, base_dependencies() and
\* Ok(Some(GeneratedMigration { .. }))
GenName ==
    /\ gen.pc = "name"
    /\ \E n \in next_migration_name(gen.processor.migrations) :
          gen' = IF n.kind = "ok"
                 THEN [gen EXCEPT !.pc = "write",
                          !.out = [kind |-> "some", migration_name |-> n.name,
                                   dependencies |->
                                       base_dependencies(gen.processor.migrations)]]
                 ELSE [gen EXCEPT !.pc = "done", !.out.kind = n.kind]
    /\ UNCHANGED <<migrations, sorter, sortRet, engine, db, run, hist, startup, other, probe>>

\* generate_migration_file_content: the Migration impl of the generated file
GenWrite ==
    /\ gen.pc = "write"
    /\ gen' = [gen EXCEPT !.pc = "done",
                  !.file = [written |-> TRUE,
                            APP_NAME |-> IF gen.app_name # 0 THEN gen.app_name
                                         ELSE gen.crate_name,
                            MIGRATION_NAME |-> gen.out.migration_name,
                            DEPENDENCIES |-> gen.out.dependencies,
                            OPERATIONS |-> gen.result.operations]]
    /\ UNCHANGED <<migrations, sorter, sortRet, engine, db, run, hist, startup, other, probe>>

\* ------------------------------------------------------ generator inputs

\* the fields of a model in the order given by the column sequence cols
FieldList(cols, ty) == [i \in 1..Len(cols) |-> GenField(cols[i], ty[cols[i]])]

PlainTypes == [c \in Columns |-> 1]

\* field lists of application models: any non-empty set of columns, declared
\* in ascending or in descending column order
DeclaredFieldLists ==
    UNION {{FieldList(SetToSeq(S), PlainTypes), FieldList(Reverse(SetToSeq(S)), PlainTypes)} :
              S \in (SUBSET Columns) \ {{}}}

\* field lists of snapshot models: any non-empty set of columns, the first of
\* them with any of the definitions
SnapshotFieldLists ==
    UNION {{FieldList(SetToSeq(S), [PlainTypes EXCEPT ![SetToSeq(S)[1]] = ty]) :
               ty \in Types} :
              S \in (SUBSET Columns) \ {{}}}

\* the models of a table -> field list map, in descending table order
ModelSeq(model_type, f) ==
    LET names == Reverse(SetToSeq(DOMAIN f))
    IN [i \in 1..Len(names) |-> GenModel(model_type, names[i], f[names[i]])]

TableSets == {P \in SUBSET GenTables : Cardinality(P) <= MaxGenModels}

\* generate_operations on its own: application models and latest snapshots,
\* a model and its snapshot having up to MaxModelFields columns between them
InitDiff ==
    /\ migrations = <<>>
    /\ sorter = SorterIdle
    /\ sortRet = Pending
    /\ engine = NoEngine
    /\ db = FreshDb
    /\ run = IdleRun
    /\ hist = FreshHist
    /\ startup = StartupOff
    /\ other = IdleRun
    /\ probe = ProbeOff
    /\ \E Pd \in TableSets, Ps \in TableSets :
          /\ Cardinality(Pd \cup Ps) <= MaxGenModels
          /\ \E d \in [Pd -> DeclaredFieldLists], s \in [Ps -> SnapshotFieldLists] :
                /\ \A t \in Pd \cap Ps :
                      Cardinality({d[t][i].column_name : i \in 1..Len(d[t])}
                                  \cup {s[t][i].column_name : i \in 1..Len(s[t])})
                          <= MaxModelFields
                /\ gen = [GenStart(0, ModelSeq("Application", d), <<>>) EXCEPT
                          !.pc = "operations",
                          !.processor = [ok |-> TRUE, migrations |-> <<>>],
                          !.migration_models = ModelsMap(ModelSeq("Migration", s))]

NextDiff == GenOperations

SpecDiff == InitDiff /\ [][NextDiff]_vars

\* generate_operations has returned its operations (no todo!() was hit)
OperationsReturned ==
    /\ gen.pc \in {"name", "write", "done"}
    /\ gen.processor.ok
    /\ ~gen.result.panic

OpsAt(kind, table_name) ==
    {i \in 1..Len(gen.result.operations) :
        /\ gen.result.operations[i].kind = kind
        /\ gen.result.operations[i].table_name = table_name}

ColumnsOf(model) == {model.fields[i].column_name : i \in 1..Len(model.fields)}

\* C25: for a declared model absent from migration history the generator
\* emits exactly one CreateModel operation, whose fields are all the model's
\* fields in declared order (and no AddField for that table); for a declared
\* model present in history it emits exactly one AddField per field missing
\* from the historical snapshot, no operation for a field that is unchanged,
\* and no CreateModel for that table.
C25_CreateAndAddField ==
    OperationsReturned =>
        \A i \in 1..Len(gen.models) :
            LET a == gen.models[i]
                t == a.table_name
                ops == gen.result.operations
            IN IF t \notin DOMAIN gen.migration_models
               THEN /\ Cardinality(OpsAt("CreateModel", t)) = 1
                    /\ \A k \in OpsAt("CreateModel", t) : ops[k].fields = a.fields
                    /\ OpsAt("AddField", t) = {}
               ELSE LET snapshot == gen.migration_models[t]
                    IN /\ OpsAt("CreateModel", t) = {}
                       /\ \A j \in 1..Len(a.fields) :
                             Cardinality({k \in OpsAt("AddField", t) :
                                             ops[k].field.column_name =
                                                 a.fields[j].column_name}) =
                                 IF a.fields[j].column_name \in ColumnsOf(snapshot)
                                 THEN 0 ELSE 1
                       /\ \A k \in OpsAt("AddField", t) :
                             \E j \in 1..Len(a.fields) : ops[k].field = a.fields[j]

\* one generation creates a model declared with its columns out of name
\* order and adds a field to another model that keeps an unchanged field
C25_Witness ==
    /\ OperationsReturned
    /\ \E i, j \in 1..Len(gen.models) :
          LET a == gen.models[i]
              b == gen.models[j]
          IN /\ a.table_name \notin DOMAIN gen.migration_models
             /\ Len(a.fields) >= 2
             /\ a.fields[1].column_name > a.fields[2].column_name
             /\ OpsAt("CreateModel", a.table_name) # {}
             /\ b.table_name \in DOMAIN gen.migration_models
             /\ OpsAt("AddField", b.table_name) # {}
             /\ ColumnsOf(b) \cap ColumnsOf(gen.migration_models[b.table_name]) # {}

\* field lists that grow by one column at a time, as a model does from one
\* generated migration to the next
PrefixLists == {FieldList(SetToSeq(1..k), PlainTypes) : k \in Columns}

\* the snapshot models a migration file can hold
SnapshotSeqs ==
    UNION {{ModelSeq("Migration", s) : s \in [Ps -> PrefixLists]} :
              Ps \in TableSets \ {{}}}

\* the snapshot of a generated migration that touched one model
SingleSnapshotSeqs ==
    {<<GenModel("Migration", t, f)>> : t \in GenTables, f \in PrefixLists}

\* migration files with the names in names and the snapshots in snaps; every
\* migration found in the crate has the crate's name as its app name
HistorySeq(names, snaps) ==
    [i \in 1..Len(names) |-> GenMigration(CrateName, NameRank(names[i]), snaps[i])]

\* sequences of n different names out of a set, in descending order: the
\* processor sorts what it is given, so one order per set is enough, the one
\* the sorter has to turn around
DescendingNames(S, n) ==
    {s \in [1..n -> S] : \A i, j \in 1..n : i < j => StrLess(s[j], s[i])}

\* generate_migrations and the writing of the file: application models, and
\* up to MaxHistory migration files with generated names
InitGen ==
    /\ migrations = <<>>
    /\ sorter = SorterIdle
    /\ sortRet = Pending
    /\ engine = NoEngine
    /\ db = FreshDb
    /\ run = IdleRun
    /\ hist = FreshHist
    /\ startup = StartupOff
    /\ other = IdleRun
    /\ probe = ProbeOff
    /\ \E Pd \in TableSets, n \in 0..MaxHistory, app_name \in AppNameOptions :
          \E d \in [Pd -> PrefixLists], names \in DescendingNames(PlainNames, n),
             snaps \in [1..n -> SingleSnapshotSeqs] :
                gen = GenStart(app_name, ModelSeq("Application", d),
                               HistorySeq(names, snaps))

NextGen ==
    \/ GenProcess
    \/ GenOperations
    \/ GenName
    \/ GenWrite

SpecGen == InitGen /\ [][NextGen]_vars

\* MigrationProcessor::new and latest_models on their own: up to MaxHistory
\* migration files, each with the snapshots of up to MaxGenModels models
InitHistory ==
    /\ migrations = <<>>
    /\ sorter = SorterIdle
    /\ sortRet = Pending
    /\ engine = NoEngine
    /\ db = FreshDb
    /\ run = IdleRun
    /\ hist = FreshHist
    /\ startup = StartupOff
    /\ other = IdleRun
    /\ probe = ProbeOff
    /\ \E n \in 0..MaxHistory :
          \E names \in DescendingNames(PlainNames, n), snaps \in [1..n -> SnapshotSeqs] :
              gen = GenStart(0, <<>>, HistorySeq(names, snaps))

NextHistory == GenProcess

SpecHistory == InitHistory /\ [][NextHistory]_vars

\* a single application model, with one field more than its snapshot
OneNewModel == <<GenModel("Application", 1, FieldList(<<1, 2>>, PlainTypes))>>

\* a single snapshot model
OneSnapshot == <<GenModel("Migration", 1, FieldList(<<1>>, PlainTypes))>>

\* next_migration_name after migration files of any name
InitName ==
    /\ migrations = <<>>
    /\ sorter = SorterIdle
    /\ sortRet = Pending
    /\ engine = NoEngine
    /\ db = FreshDb
    /\ run = IdleRun
    /\ hist = FreshHist
    /\ startup = StartupOff
    /\ other = IdleRun
    /\ probe = ProbeOff
    /\ \E n \in 0..MaxHistory :
          \E names \in DescendingNames(NameStrings, n) :
              gen = GenStart(0, OneNewModel,
                             HistorySeq(names, [i \in 1..n |-> OneSnapshot]))

SpecName == InitName /\ [][NextGen]_vars

\* generate_migrations has returned Ok(Some(migration))
Generated == gen.pc \in {"write", "done"} /\ gen.out.kind = "some"

\* C23: with an empty migration history and at least one declared model,
\* the generator returns a migration, names it exactly m_0001_initial and
\* gives it an empty dependency list, in what generate_migrations returns
\* and in the file that is written.
C23_InitialMigration ==
    (gen.migrations = <<>> /\ gen.models # <<>> /\ gen.pc \in {"write", "done"}) =>
        /\ gen.out.kind = "some"
        /\ gen.out.migration_name = <<CH_m, CH_US, 0, 0, 0, 1, CH_US, CH_i>>
        /\ gen.out.dependencies = <<>>
        /\ gen.pc = "done" =>
              /\ gen.file.written
              /\ gen.file.MIGRATION_NAME = <<CH_m, CH_US, 0, 0, 0, 1, CH_US, CH_i>>
              /\ gen.file.DEPENDENCIES = <<>>

\* the first migration of a crate with two models has been written
C23_Witness ==
    /\ gen.migrations = <<>>
    /\ Len(gen.models) = 2
    /\ gen.pc = "done"
    /\ gen.file.written
    /\ gen.file.MIGRATION_NAME = <<CH_m, CH_US, 0, 0, 0, 1, CH_US, CH_i>>
    /\ Len(gen.file.OPERATIONS) = 2

\* the last migration of the sorted history
LastMigration == gen.processor.migrations[Len(gen.processor.migrations)]

\* str is m_<n>_<slug>: "m_", at least one decimal digit, "_", a slug
IsNumberedName(str) ==
    /\ Len(str) >= 5
    /\ str[1] = CH_m /\ str[2] = CH_US
    /\ \E q \in 4..(Len(str) - 1) :
          /\ str[q] = CH_US
          /\ \A i \in 3..(q - 1) : str[i] \in Digits

\* next_migration_name has been called and generate_migrations has gone on
\* or returned
NameAsked ==
    /\ gen.pc \in {"write", "done"}
    /\ gen.processor.ok
    /\ ~gen.result.panic
    /\ gen.result.operations # <<>>

\* C24: with a non-empty history whose last migration in sorted order is
\* named m_<n>_<slug>, next_migration_name returns a name whose sequence
\* number is n + 1, written with at least four digits, zero-padded.
C24_NextNumber ==
    (NameAsked /\ gen.processor.migrations # <<>>
       /\ IsNumberedName(NameString(LastMigration.name))) =>
        /\ gen.out.kind = "some"
        /\ IsNumberedName(gen.out.migration_name)
        /\ SplitNth1(gen.out.migration_name).str =
              Format04(PlusOne(StripZeros(SplitNth1(NameString(LastMigration.name)).str)))

\* the migration of the history that sorts last: no other has a greater name
SortsLast(m) ==
    /\ \E i \in 1..Len(gen.migrations) : gen.migrations[i] = m
    /\ \A i \in 1..Len(gen.migrations) :
          ~StrLess(NameString(m.name), NameString(gen.migrations[i].name))

\* C26: when a migration history exists, a newly generated migration
\* declares exactly one dependency: an on-migration dependency naming the
\* last migration of the sorted history, with an app name equal to the
\* APP_NAME written into the generated migration itself, also when the
\* generator's app_name option is set.
C26_DependsOnLastMigration ==
    (gen.pc = "done" /\ gen.file.written /\ gen.migrations # <<>>) =>
        /\ Len(gen.file.DEPENDENCIES) = 1
        /\ gen.file.DEPENDENCIES[1].kind = "Migration"
        /\ \E i \in 1..Len(gen.migrations) :
              /\ SortsLast(gen.migrations[i])
              /\ gen.file.DEPENDENCIES[1].migration = gen.migrations[i].name
        /\ gen.file.DEPENDENCIES[1].app = gen.file.APP_NAME

\* the latest snapshots as a sequence, in ascending table order
SnapshotModels ==
    [i \in 1..Cardinality(DOMAIN gen.migration_models) |->
        gen.migration_models[SetToSeq(DOMAIN gen.migration_models)[i]]]

DeclaredTables == {gen.models[i].table_name : i \in 1..Len(gen.models)}

DeclaredModel(t) == gen.models[CHOOSE i \in 1..Len(gen.models) : gen.models[i].table_name = t]

\* a model of the migration history is no longer declared
NeedsModelRemoval == \E t \in DOMAIN gen.migration_models : t \notin DeclaredTables

\* a declared model lacks a column its snapshot has
NeedsFieldRemoval ==
    \E t \in (DOMAIN gen.migration_models) \cap DeclaredTables :
        ColumnsOf(gen.migration_models[t]) \ ColumnsOf(DeclaredModel(t)) # {}

\* a declared model defines a column otherwise than its snapshot does
NeedsFieldChange ==
    \E t \in (DOMAIN gen.migration_models) \cap DeclaredTables :
        \E i \in 1..Len(DeclaredModel(t).fields),
           j \in 1..Len(gen.migration_models[t].fields) :
            /\ DeclaredModel(t).fields[i].column_name =
                  gen.migration_models[t].fields[j].column_name
            /\ DeclaredModel(t).fields[i] # gen.migration_models[t].fields[j]

\* C28: when reconciliation would need a field removal, a change of an
\* existing field's definition, or a model removal, the generator panics
\* and produces no migration; it never returns a migration (or "nothing to
\* do") that silently omits the needed change.
C28_UnsupportedChangePanics ==
    (gen.pc # "operations" /\ gen.processor.ok
       /\ (NeedsModelRemoval \/ NeedsFieldRemoval \/ NeedsFieldChange)) =>
        /\ gen.pc = "done"
        /\ gen.out.kind = "panic"
        /\ ~gen.file.written

\* the generator has panicked on models that need a model removal, a field
\* removal and a field change, next to a field to add
C28_Witness ==
    /\ gen.pc = "done"
    /\ gen.out.kind = "panic"
    /\ NeedsModelRemoval
    /\ NeedsFieldRemoval
    /\ NeedsFieldChange
    /\ \E t \in (DOMAIN gen.migration_models) \cap DeclaredTables :
          ColumnsOf(DeclaredModel(t)) \ ColumnsOf(gen.migration_models[t]) # {}

\* the tables a migration has a snapshot of
SnapshotTables(m) == {m.models[i].table_name : i \in 1..Len(m.models)}

SnapshotOf(m, t) == m.models[CHOOSE i \in 1..Len(m.models) : m.models[i].table_name = t]

\* m is the migration applied last among those of the history with a
\* snapshot of table t; the migrations of a crate are applied in name order
LastWith(m, t) ==
    /\ t \in SnapshotTables(m)
    /\ \A i \in 1..Len(gen.migrations) :
          t \in SnapshotTables(gen.migrations[i]) =>
              ~StrLess(NameString(m.name), NameString(gen.migrations[i].name))

\* C29: MigrationProcessor::latest_models returns exactly one model per
\* table name occurring in any historical migration's snapshots, and that
\* model is the snapshot from the last migration, in sorted application
\* order, that contains the table name.
C29_LatestModels ==
    (gen.pc # "process" /\ gen.processor.ok) =>
        /\ DOMAIN gen.migration_models =
              UNION {SnapshotTables(gen.migrations[i]) : i \in 1..Len(gen.migrations)}
        /\ \A t \in DOMAIN gen.migration_models :
              \E i \in 1..Len(gen.migrations) :
                  /\ LastWith(gen.migrations[i], t)
                  /\ gen.migration_models[t] = SnapshotOf(gen.migrations[i], t)

\* two migrations, found in descending order, hold different snapshots of
\* one table, and the earlier one holds a table the later one does not
C29_Witness ==
    /\ gen.pc # "process"
    /\ gen.processor.ok
    /\ Len(gen.migrations) = 2
    /\ StrLess(NameString(gen.migrations[2].name), NameString(gen.migrations[1].name))
    /\ \E t, u \in GenTables :
          /\ t \in SnapshotTables(gen.migrations[1]) \cap SnapshotTables(gen.migrations[2])
          /\ SnapshotOf(gen.migrations[1], t) # SnapshotOf(gen.migrations[2], t)
          /\ gen.migration_models[t] = SnapshotOf(gen.migrations[1], t)
          /\ u \in SnapshotTables(gen.migrations[2]) \ SnapshotTables(gen.migrations[1])
          /\ gen.migration_models[u] = SnapshotOf(gen.migrations[2], u)

\* ------------------------------------ runs one after the other, repeatable
\* operations included

\* calls of run that do not overlap, on migrations whose operations may
\* succeed a second time
SpecSequential == InitConcurrent /\ [][Next]_vars

\* C30: after any sequence of non-overlapping MigrationEngine::run calls on
\* one database, runs aborted by a failing operation or ledger write (or by
\* a crash) included, the ledger holds at most one row for any (app, name)
\* pair.
C30_AtMostOneRow ==
    \A id \in Ids : Cardinality(RowsOf(db.ledger, id)) <= 1

\* a run after an aborted one has passed over a recorded migration whose
\* operation would have succeeded again, and the ledger has its single row
C30_Witness ==
    /\ hist.runs >= 2
    /\ hist.prevResult \in {"err", "crashed"}
    /\ run.pc = "returned"
    /\ run.result = "ok"
    /\ \E id \in EngineIds :
          /\ MigById(id).operations # <<>>
          /\ MigById(id).operations[1].if_not_exists
          /\ \E k \in 1..Len(run.log) : run.log[k].ev = "skip" /\ run.log[k].id = id
          /\ Cardinality(RowsOf(db.ledger, id)) = 1

\* ------------------------------------------------- a run after a failed run

\* index in the engine's order of the first migration without a row in the
\* ledger as it was when the run began, Len + 1 if every migration has one
FirstUnrecorded ==
    LET c == {i \in 1..Len(engine.migrations) :
                 RowsOf(hist.ledgerAtStart, MigId(engine.migrations[i])) = {}}
    IN IF c = {} THEN Len(engine.migrations) + 1
       ELSE CHOOSE i \in c : \A k \in c : i <= k

\* the run with this log was stopped by a failing call made for a migration
\* (the ledger lookup, an operation or the ledger write)
FailedInMigration(log) ==
    /\ log # <<>>
    /\ ~log[Len(log)].ok
    /\ log[Len(log)].ev \in {"check", "forwards", "mark"}

\* C31: after a run is aborted by a failure, a later run on the same
\* database with the same set executes no operation of a migration recorded
\* before the failure, resumes (its first forwards) at the first migration in
\* sorted order that has no ledger row, and when it returns Ok every
\* migration of the set is recorded.
C31_ResumeAfterFailure ==
    (hist.runs >= 2 /\ hist.prevResult = "err" /\ FailedInMigration(hist.prevLog)) =>
        /\ \A i \in 1..Len(run.log) :
              run.log[i].ev = "forwards" =>
                  RowsOf(hist.ledgerAtStart, run.log[i].id) = {}
        /\ \A i \in ForwardsAt(run.log) :
              (\A j \in ForwardsAt(run.log) : i <= j) =>
                  /\ FirstUnrecorded <= Len(engine.migrations)
                  /\ run.log[i].id = MigId(engine.migrations[FirstUnrecorded])
        /\ (run.pc = "returned" /\ run.result = "ok") =>
              \A id \in EngineIds : HasRow(id)

\* ------------------------------------ models as declared in the sources
\* flareon-codegen/src/model.rs and process_parsed_file. A struct in a source
\* file carries its identifier, the arguments of its #[model] attribute and
\* its fields with their #[model(..)] flags.

\* character codes of letters: lower-case letters start at CH_a, each
\* upper-case letter lies LetterCount above its lower-case one
LetterCount == 26
IsUpper(c) == c >= CH_a + LetterCount /\ c < CH_a + 2 * LetterCount
IsLower(c) == c >= CH_a /\ c < CH_a + LetterCount
ToUpper(c) == IF IsLower(c) THEN c + LetterCount ELSE c
ToLower(c) == IF IsUpper(c) THEN c - LetterCount ELSE c

\* str.to_case(Case::Snake): words are separated by "_" and start at an
\* upper-case letter that follows a lower-case one; empty words are dropped,
\* the others are lower-cased and joined with "_"
RECURSIVE SnakeFrom(_, _, _, _)
SnakeFrom(str, k, out, sep) ==
    IF k > Len(str) THEN out
    ELSE IF str[k] = CH_US THEN SnakeFrom(str, k + 1, out, TRUE)
    ELSE LET boundary == sep \/ (k > 1 /\ IsUpper(str[k]) /\ IsLower(str[k - 1]))
         IN SnakeFrom(str, k + 1,
                out \o (IF boundary /\ out # <<>> THEN <<CH_US>> ELSE <<>>)
                    \o <<ToLower(str[k])>>,
                FALSE)

to_case_Snake(str) == SnakeFrom(str, 1, <<>>, FALSE)

\* the string a table name stands for, and back: table t is the t-th letter
TableString(t) == <<CH_a + t - 1>>
TableStrings == {TableString(t) : t \in GenTables}
TableOfString(str) == CHOOSE t \in GenTables : TableString(t) = str

\* the struct identifier whose snake case is the name of table t
StructIdent(t) == <<ToUpper(CH_a + t - 1)>>

\* Option<String>
NoString == [some |-> FALSE, str |-> <<>>]
SomeString(str) == [some |-> TRUE, str |-> str]

\* str.strip_prefix("_")
strip_prefix_underscore(str) ==
    IF str # <<>> /\ str[1] = CH_US THEN SomeString(Tail(str)) ELSE NoString

\* the column named "id"
IdColumn == 1

ModelArgs(model_type, table_name) == [model_type |-> model_type, table_name |-> table_name]

FieldOpts(ident, ty, primary_key, unique) ==
    [ident |-> ident, ty |-> ty, primary_key |-> primary_key, unique |-> unique]

\* syn::ItemStruct with a #[model(..)] attribute
ItemStruct(ident, attrs, fields) == [ident |-> ident, attrs |-> attrs, fields |-> fields]

\* FieldOpts::as_field; auto_value and foreign_key follow from ty
as_field(opts) ==
    [column_name |-> opts.ident, ty |-> opts.ty,
     primary_key |-> (opts.ident = IdColumn \/ opts.primary_key),
     unique |-> opts.unique]

\* the messages of the errors of get_primary_key_field
MissingPrimaryKey == "models must have a primary key field"
CompositePrimaryKey == "composite primary keys are not supported"

ModelError(message) == [ok |-> FALSE, error |-> message, model |-> <<>>]

get_primary_key_field_first(fields) ==
    LET pks == SelectSeq(fields, LAMBDA f : f.primary_key)
    IN IF pks = <<>>
       THEN [ok |-> FALSE, error |-> MissingPrimaryKey, field |-> <<>>]
       ELSE [ok |-> TRUE, error |-> "", field |-> pks[1]]

\* ModelOpts::get_primary_key_field
get_primary_key_field(fields) ==
    LET pks == SelectSeq(fields, LAMBDA f : f.primary_key)
    IN IF pks = <<>>
       THEN [ok |-> FALSE, error |-> MissingPrimaryKey, field |-> <<>>]
       ELSE IF Len(pks) > 1
       THEN [ok |-> FALSE, error |-> CompositePrimaryKey, field |-> <<>>]
       ELSE [ok |-> TRUE, error |-> "", field |-> pks[1]]

\* ModelOpts::as_model
as_model(opts, args) ==
    LET fields == [i \in 1..Len(opts.fields) |-> as_field(opts.fields[i])]
        stripped == strip_prefix_underscore(opts.ident)
        original_name == IF args.model_type = "Migration" THEN stripped.str
                         ELSE opts.ident
        table_name == IF args.table_name.some THEN args.table_name.str
                      ELSE to_case_Snake(original_name)
        pk == get_primary_key_field(fields)
    IN IF args.model_type = "Migration" /\ ~stripped.some
       THEN ModelError("migration model names must start with an underscore")
       ELSE IF ~pk.ok THEN ModelError(pk.error)
       ELSE [ok |-> TRUE, error |-> "",
             model |-> [name |-> opts.ident, original_name |-> original_name,
                        model_type |-> args.model_type,
                        table_name |-> TableOfString(table_name),
                        pk_field |-> pk.field, fields |-> fields]]

\* ModelInSource::from_item: the struct together with the model read from it
ModelInSource_from_item(item) ==
    LET r == as_model(item, item.attrs)
    IN IF ~r.ok THEN r
       ELSE [r EXCEPT !.model =
                [model_item |-> item, name |-> r.model.name,
                 original_name |-> r.model.original_name,
                 model_type |-> r.model.model_type,
                 table_name |-> r.model.table_name,
                 pk_field |-> r.model.pk_field, fields |-> r.model.fields]]

\* MigrationGenerator::model_to_migration_model: the struct renamed to _X,
\* its attributes replaced by #[model(model_type = "migration")]
model_to_migration_model(model) ==
    [model.model_item EXCEPT
        !.ident = <<CH_US>> \o @,
        !.attrs = ModelArgs("Migration", NoString)]

\* a source file: its file stem and the model structs in it
SourceFile(stem, items) == [stem |-> stem, items |-> items]

NoAppState == [ok |-> TRUE, models |-> <<>>, migrations |-> <<>>]

\* the loop of process_parsed_file over the structs of one file
RECURSIVE ProcessItems(_, _, _)
ProcessItems(items, k, acc) ==
    IF ~acc.ok \/ k > Len(items) THEN acc
    ELSE LET m == ModelInSource_from_item(items[k])
         IN ProcessItems(items, k + 1,
                IF ~m.ok THEN [acc EXCEPT !.ok = FALSE]
                ELSE IF m.model.model_type = "Application"
                THEN [acc EXCEPT !.models = Append(@, m.model)]
                ELSE [acc EXCEPT !.migration_models = Append(@, m.model)])

\* MigrationGenerator::process_parsed_file
process_parsed_file(file, app_state) ==
    LET r == ProcessItems(file.items, 1,
                 [ok |-> TRUE, models |-> app_state.models, migration_models |-> <<>>])
    IN IF ~r.ok THEN [app_state EXCEPT !.ok = FALSE]
       ELSE [app_state EXCEPT
                !.models = r.models,
                !.migrations =
                    IF r.migration_models # <<>>
                    THEN Append(@, GenMigration(CrateName, NameRank(file.stem),
                                                r.migration_models))
                    ELSE @]

\* the loop over the source files of the crate
RECURSIVE ProcessFiles(_, _, _)
ProcessFiles(files, k, app_state) ==
    IF ~app_state.ok \/ k > Len(files) THEN app_state
    ELSE ProcessFiles(files, k + 1, process_parsed_file(files[k], app_state))

process_source_files(files) == ProcessFiles(files, 1, NoAppState)

\* ------------------------------- generating twice over the same sources

\* the generator before the source files are read
RegenStart(sources) ==
    [pc |-> "parse", crate_name |-> CrateName, app_name |-> 0,
     models |-> <<>>, migrations |-> <<>>,
     processor |-> [ok |-> FALSE, migrations |-> <<>>],
     migration_models |-> <<>>, result |-> NoOperations, out |-> NoGenerated,
     file |-> NoFile, sources |-> sources, again |-> FALSE,
     first |-> NoOperations]

\* process_source_files: the models and the migrations of the crate
GenParse ==
    /\ gen.pc = "parse"
    /\ LET r == process_source_files(gen.sources)
       IN gen' = IF r.ok
                 THEN [gen EXCEPT !.pc = "process", !.models = r.models,
                                  !.migrations = r.migrations]
                 ELSE [gen EXCEPT !.pc = "done", !.out.kind = "err"]
    /\ UNCHANGED <<migrations, sorter, sortRet, engine, db, run, hist, startup, other, probe>>

\* the file generate_migration_file_content wrote, with the snapshots of the
\* modified models, is now one of the sources, and the generator is started
\* again on the same model declarations
GenAddToSources ==
    /\ gen.pc = "done"
    /\ gen.file.written
    /\ ~gen.again
    /\ gen' = [gen EXCEPT
                  !.pc = "parse",
                  !.sources =
                      Append(@, SourceFile(gen.file.MIGRATION_NAME,
                                 [i \in 1..Len(gen.result.modified_models) |->
                                     model_to_migration_model(
                                         gen.result.modified_models[i])])),
                  !.again = TRUE,
                  !.first = gen.result,
                  !.models = <<>>, !.migrations = <<>>,
                  !.processor = [ok |-> FALSE, migrations |-> <<>>],
                  !.migration_models = <<>>, !.result = NoOperations,
                  !.out = NoGenerated, !.file = NoFile]
    /\ UNCHANGED <<migrations, sorter, sortRet, engine, db, run, hist, startup, other, probe>>

\* the fields of a struct: the columns cols in this order, none of them
\* flagged; the column "id" is a primary key by its name
PlainFieldOpts(cols) == [i \in 1..Len(cols) |-> FieldOpts(cols[i], 1, FALSE, FALSE)]

\* field lists that start with "id" and grow by one column at a time, and
\* one without a primary key
DeclaredFieldOpts ==
    {PlainFieldOpts(SetToSeq(1..k)) : k \in Columns} \cup {PlainFieldOpts(<<NumColumns>>)}

\* an application model struct for table t: named after the table, with or
\* without an explicit table_name argument
AppItems(t) ==
    {ItemStruct(StructIdent(t), ModelArgs("Application", tn), f) :
        tn \in {NoString} \cup {SomeString(str) : str \in TableStrings},
        f \in DeclaredFieldOpts}

\* the snapshot a generated migration holds of an application model struct
\* when the struct had only its first k fields
EarlierSnapshot(item, k) ==
    model_to_migration_model(
        [model_item |-> [item EXCEPT !.fields = SubSeq(@, 1, k)]])

\* the application models of a crate, and either no migration yet or the
\* initial migration generated when the first model was shorter
InitRegen ==
    /\ migrations = <<>>
    /\ sorter = SorterIdle
    /\ sortRet = Pending
    /\ engine = NoEngine
    /\ db = FreshDb
    /\ run = IdleRun
    /\ hist = FreshHist
    /\ startup = StartupOff
    /\ other = IdleRun
    /\ probe = ProbeOff
    /\ \E P \in TableSets \ {{}} :
          \E items \in [P -> UNION {AppItems(t) : t \in GenTables}], k \in 0..NumColumns :
              /\ \A t \in P : items[t] \in AppItems(t)
              /\ LET app == [i \in 1..Cardinality(P) |-> items[SetToSeq(P)[i]]]
                 IN /\ k <= Len(app[1].fields)
                    /\ gen = RegenStart(
                           <<SourceFile(<<>>, app)>> \o
                           (IF k = 0 THEN <<>>
                            ELSE <<SourceFile(MigrationName(<<0, 0, 0, 1>>, SlugInitial),
                                              <<EarlierSnapshot(app[1], k)>>)>>))

NextRegen ==
    \/ GenParse
    \/ GenProcess
    \/ GenOperations
    \/ GenName
    \/ GenWrite
    \/ GenAddToSources

SpecRegen == InitRegen /\ [][NextRegen]_vars

\* the generator runs for the second time and has read the sources
SecondRound == gen.again /\ gen.pc # "parse"

\* the snapshot models read back from the migration file written last
SnapshotsWritten == gen.migrations[Len(gen.migrations)].models

\* C33: the snapshot written for an application model X (struct _X with
\* model_type = migration) resolves through as_model to the table name of X,
\* and the next diff matches them: it neither creates the table of a
\* snapshotted model again nor meets a removed table
C33_SnapshotSameTable ==
    SecondRound =>
        /\ \A i \in 1..Len(gen.first.modified_models) :
              /\ SnapshotsWritten[i].name = <<CH_US>> \o gen.first.modified_models[i].name
              /\ SnapshotsWritten[i].table_name = gen.first.modified_models[i].table_name
        /\ gen.pc \in {"name", "write", "done"} =>
              /\ ~gen.result.panic
              /\ \A i \in 1..Len(gen.result.operations) :
                    gen.result.operations[i].kind # "CreateModel"

\* C32: after the migration generated first is added to the sources, the
\* second generate_migrations over the same model declarations returns None
C32_FixedPoint ==
    (gen.again /\ gen.pc = "done") =>
        /\ gen.out.kind = "none"
        /\ gen.result.operations = <<>>
        /\ ~gen.file.written

\* the sequence number in a name m_<number>_<slug>, without leading zeros
SequenceNumber(str) == StripZeros(SplitNth1(str).str)

\* C34: for a history of migrations named m_<number>_<slug>, the sequence
\* number in the name returned by next_migration_name is strictly greater
\* than the sequence number of every existing migration
C34_NumberNeverReused ==
    (/\ NameAsked
     /\ gen.out.kind = "some"
     /\ \A i \in 1..Len(gen.processor.migrations) :
           IsNumberedName(NameString(gen.processor.migrations[i].name))) =>
        \A i \in 1..Len(gen.processor.migrations) :
            ~NumberLeq(SequenceNumber(gen.out.migration_name),
                       SequenceNumber(NameString(gen.processor.migrations[i].name)))

\* a single application model equal to its snapshot
OneSameModel == <<GenModel("Application", 1, FieldList(<<1>>, PlainTypes))>>

\* generate_migrations after migration files of any name, with and without
\* an operation to emit
InitNameAny ==
    /\ migrations = <<>>
    /\ sorter = SorterIdle
    /\ sortRet = Pending
    /\ engine = NoEngine
    /\ db = FreshDb
    /\ run = IdleRun
    /\ hist = FreshHist
    /\ startup = StartupOff
    /\ other = IdleRun
    /\ probe = ProbeOff
    /\ \E n \in 0..MaxHistory, models \in {OneNewModel, OneSameModel} :
          \E names \in DescendingNames(NameStrings, n) :
              gen = GenStart(0, models, HistorySeq(names, [i \in 1..n |-> OneSnapshot]))

SpecNameAny == InitNameAny /\ [][NextGen]_vars

\* generate_operations has returned
OperationsKnown == gen.pc \in {"name", "write", "done"} /\ gen.processor.ok /\ ~gen.result.panic

\* the name of the last existing migration has a second '_'-separated
\* segment that parses as a u32
LastNumberParses ==
    LET seg == SplitNth1(NameString(LastMigration.name))
    IN /\ seg.some
       /\ seg.str # <<>>
       /\ \A i \in 1..Len(seg.str) : seg.str[i] \in Digits
       /\ NumberLeq(StripZeros(seg.str), U32Max)

\* C35: with at least one operation to emit and a last existing migration
\* whose name has no second '_'-separated segment that parses as an unsigned
\* integer, generate_migrations returns an error and no migration; with no
\* operation to emit it returns None straight after generate_operations,
\* next_migration_name not being called
C35_NameErrorOnlyWithOperations ==
    /\ (/\ OperationsKnown
        /\ gen.pc # "name"
        /\ gen.result.operations # <<>>
        /\ gen.processor.migrations # <<>>
        /\ ~LastNumberParses) =>
            /\ gen.pc = "done"
            /\ gen.out.kind = "err"
            /\ gen.out.migration_name = <<>>
            /\ ~gen.file.written
    /\ (OperationsKnown /\ gen.result.operations = <<>>) =>
            /\ gen.pc = "done"
            /\ gen.out.kind = "none"
            /\ gen.out.migration_name = <<>>
            /\ ~gen.file.written

\* generate_migrations has returned the error of a last migration name
\* without a number, having had an operation to emit
C35_Witness ==
    /\ OperationsKnown
    /\ gen.pc = "done"
    /\ gen.result.operations # <<>>
    /\ gen.processor.migrations # <<>>
    /\ ~LastNumberParses
    /\ gen.out.kind = "err"

\* ------------------------------------------------- as_model on its own

ModelTypes == {"Application", "Migration", "Internal"}

\* the fields of a struct: any columns in ascending order, any of them
\* annotated #[model(primary_key)]
AnnotatedFieldOpts ==
    {[i \in 1..Cardinality(S) |->
         FieldOpts(SetToSeq(S)[i], 1, SetToSeq(S)[i] \in P, FALSE)] :
        <<S, P>> \in {sp \in (SUBSET Columns) \X (SUBSET Columns) : sp[2] \subseteq sp[1]}}

\* a struct named X or _X with any fields, and the arguments of its
\* #[model] attribute
InitModel ==
    /\ migrations = <<>>
    /\ sorter = SorterIdle
    /\ sortRet = Pending
    /\ engine = NoEngine
    /\ db = FreshDb
    /\ run = IdleRun
    /\ hist = FreshHist
    /\ startup = StartupOff
    /\ other = IdleRun
    /\ gen = GenOff
    /\ \E ident \in {StructIdent(1), <<CH_US>> \o StructIdent(1)},
          model_type \in ModelTypes,
          table_name \in {NoString, SomeString(TableString(1))},
          fields \in AnnotatedFieldOpts :
            probe = [pc |-> "as_model",
                     opts |-> ItemStruct(ident, ModelArgs(model_type, table_name), fields),
                     result |-> ModelError("")]

\* opts.as_model(&args, symbol_resolver)
AsModel ==
    /\ probe.pc = "as_model"
    /\ probe' = [probe EXCEPT !.pc = "done",
                              !.result = as_model(probe.opts, probe.opts.attrs)]
    /\ UNCHANGED <<migrations, sorter, sortRet, engine, db, run, hist, startup, other, gen>>

NextModel == AsModel

SpecModel == InitModel /\ [][NextModel]_vars

\* the number of fields of the struct that are a primary key: named id or
\* annotated primary_key
PrimaryKeyCount ==
    Cardinality({i \in 1..Len(probe.opts.fields) :
                    \/ probe.opts.fields[i].ident = IdColumn
                    \/ probe.opts.fields[i].primary_key})

AsModelReturned == probe.pc = "done"

\* the check of the name of a migration model does not fail
NameAccepted ==
    \/ probe.opts.attrs.model_type # "Migration"
    \/ (probe.opts.ident # <<>> /\ probe.opts.ident[1] = CH_US)

Field_new(name, ty) ==
    [name |-> name, ty |-> ty, primary_key |-> FALSE, auto_value |-> FALSE,
     null |-> FALSE, unique |-> FALSE]

Field_primary_key(self) == [self EXCEPT !.primary_key = TRUE]

Field_auto(self) == [self EXCEPT !.auto_value = TRUE]

Field_null(self) == [self EXCEPT !.null = TRUE]

Field_set_null(self, value) == [self EXCEPT !.null = value]

Field_unique(self) == [self EXCEPT !.unique = TRUE]

\* ColumnTypeMapper::sea_query_column_type_for of the database in use
sea_query_column_type_for(ty) == <<"sea_query", ty>>

Field_as_column_def_nullable(self) ==
    [name |-> self.name, ty |-> sea_query_column_type_for(self.ty),
     spec |-> (IF self.primary_key THEN <<"PrimaryKey">> ELSE <<>>)
              \o (IF self.auto_value THEN <<"AutoIncrement">> ELSE <<>>)
              \o (IF self.null THEN <<"Null">> ELSE <<>>)
              \o (IF self.unique THEN <<"UniqueKey">> ELSE <<>>)]

\* Field::as_column_def: the column specs in the order they are pushed
Field_as_column_def(self) ==
    [name |-> self.name, ty |-> sea_query_column_type_for(self.ty),
     spec |-> (IF self.primary_key THEN <<"PrimaryKey">> ELSE <<>>)
              \o (IF self.auto_value THEN <<"AutoIncrement">> ELSE <<>>)
              \o (IF self.null THEN <<"Null">> ELSE <<"NotNull">>)
              \o (IF self.unique THEN <<"UniqueKey">> ELSE <<>>)]

NoColumnDef == [name |-> 0, ty |-> <<>>, spec |-> <<>>]

\* Field::new(name, ty), followed by up to MaxBuilderCalls builder calls
InitField ==
    /\ migrations = <<>>
    /\ sorter = SorterIdle
    /\ sortRet = Pending
    /\ engine = NoEngine
    /\ db = FreshDb
    /\ run = IdleRun
    /\ hist = FreshHist
    /\ startup = StartupOff
    /\ other = IdleRun
    /\ gen = GenOff
    /\ \E name \in Columns, ty \in Types :
          probe = [pc |-> "field", field |-> Field_new(name, ty), calls |-> 0,
                   method |-> "new", before |-> Field_new(name, ty),
                   def |-> NoColumnDef]

\* one builder call: the field it was called on is kept in before
Built(method, field) ==
    /\ probe.pc = "field"
    /\ probe.calls < MaxBuilderCalls
    /\ probe' = [probe EXCEPT !.field = field, !.calls = @ + 1, !.method = method,
                              !.before = probe.field]
    /\ UNCHANGED <<migrations, sorter, sortRet, engine, db, run, hist, startup, other, gen>>

CallPrimaryKey == Built("primary_key", Field_primary_key(probe.field))

CallAuto == Built("auto", Field_auto(probe.field))

CallNull == Built("null", Field_null(probe.field))

CallSetNull == \E value \in BOOLEAN : Built("set_null", Field_set_null(probe.field, value))

CallUnique == Built("unique", Field_unique(probe.field))

\* field.as_column_def(mapper)
CallAsColumnDef ==
    /\ probe.pc = "field"
    /\ probe' = [probe EXCEPT !.pc = "done", !.def = Field_as_column_def(probe.field)]
    /\ UNCHANGED <<migrations, sorter, sortRet, engine, db, run, hist, startup, other, gen>>

NextField ==
    \/ CallPrimaryKey
    \/ CallAuto
    \/ CallNull
    \/ CallSetNull
    \/ CallUnique
    \/ CallAsColumnDef

SpecField == InitField /\ [][NextField]_vars

\* the number of times spec occurs among the column specs of the definition
SpecCount(spec) == Cardinality({i \in 1..Len(probe.def.spec) : probe.def.spec[i] = spec})

\* the flags of a field other than flag are the same in both
SameBut(a, b, flag) ==
    /\ a.name = b.name /\ a.ty = b.ty
    /\ flag # "primary_key" => a.primary_key = b.primary_key
    /\ flag # "auto_value" => a.auto_value = b.auto_value
    /\ flag # "null" => a.null = b.null
    /\ flag # "unique" => a.unique = b.unique

\* C37: Field::new yields a field with primary_key, auto_value, null and
\* unique all false; each builder method sets its own flag and leaves the
\* rest of the field alone; as_column_def emits the primary-key,
\* auto-increment and unique column specs exactly for the flags that are
\* set, and exactly one of NULL / NOT NULL according to the null flag
C37_FieldFlagsAndColumnDef ==
    /\ probe.calls = 0 =>
          /\ ~probe.field.primary_key /\ ~probe.field.auto_value
          /\ ~probe.field.null /\ ~probe.field.unique
    /\ probe.method = "primary_key" =>
          probe.field.primary_key /\ SameBut(probe.field, probe.before, "primary_key")
    /\ probe.method = "auto" =>
          probe.field.auto_value /\ SameBut(probe.field, probe.before, "auto_value")
    /\ probe.method \in {"null", "set_null"} =>
          SameBut(probe.field, probe.before, "null")
    /\ probe.method = "null" => probe.field.null
    /\ probe.method = "unique" =>
          probe.field.unique /\ SameBut(probe.field, probe.before, "unique")
    /\ probe.pc = "done" =>
          /\ probe.def.name = probe.field.name
          /\ SpecCount("PrimaryKey") = (IF probe.field.primary_key THEN 1 ELSE 0)
          /\ SpecCount("AutoIncrement") = (IF probe.field.auto_value THEN 1 ELSE 0)
          /\ SpecCount("UniqueKey") = (IF probe.field.unique THEN 1 ELSE 0)
          /\ SpecCount("Null") = (IF probe.field.null THEN 1 ELSE 0)
          /\ SpecCount("NotNull") = (IF probe.field.null THEN 0 ELSE 1)
          /\ SpecCount("Null") + SpecCount("NotNull") = 1

\* the column definition of a field with some flags set and NOT NULL
C37_Witness ==
    /\ probe.pc = "done"
    /\ probe.calls >= 2
    /\ probe.field.primary_key
    /\ probe.field.auto_value
    /\ ~probe.field.null
    /\ probe.def.spec = <<"PrimaryKey", "AutoIncrement", "NotNull">>

====
